---- MODULE Spec2Model ----
(***************************************************************************)
(* Model of the two control algorithms of the RPG Maker translator:        *)
(*   - TranslationEngine / TranslationWorker (translation_engine.py): the  *)
(*     partitioner _split_chunks, the worker loop, the engine's event      *)
(*     aggregation on the main (GUI) thread, cancel() and the reentrancy   *)
(*     guard;                                                              *)
(*   - the caller's entry_done slot (widgets/main_window.py) that applies  *)
(*     a completed translation to the entry.                               *)
(* Worker threads are QThreads; a signal emitted by a worker is posted to  *)
(* the main thread's event queue (queued connection) and handled there one *)
(* event at a time, in posting order.                                      *)
(***************************************************************************)
EXTENDS Integers, Sequences, FiniteSets, TLC

\* ------------------------------------------------------------------ bounds
MaxEntries == 2     \* entries of the project
MaxSplitLen == 4    \* longest list given to _split_chunks on its own
MaxSplitN == 5      \* largest n given to _split_chunks on its own
MaxLongRun == 77    \* entries of the project of a long run
MaxBacklog == 1     \* events waiting for the main thread during a long run
MaxFaults == 1      \* client calls of a calibration that fall short of the best

\* -------------------------------------------------------- program constants
NumWorkers == 2             \* TranslationEngine.num_workers
CHECKPOINT_INTERVAL == 25   \* TranslationEngine.CHECKPOINT_INTERVAL
PreviewLen == 50            \* preview[:50]

\* -------------------------------------------------------------------- text
\* A text is a sequence of characters; " " stands for whitespace, "n" for a
\* newline (whitespace too), "x" for any other character.
IsSpace(c) == c \in {" ", "n"}

RECURSIVE LStrip(_)
LStrip(t) == IF t # <<>> /\ IsSpace(Head(t)) THEN LStrip(Tail(t)) ELSE t

RECURSIVE RStrip(_)
RStrip(t) ==
    IF t # <<>> /\ IsSpace(t[Len(t)]) THEN RStrip(SubSeq(t, 1, Len(t) - 1)) ELSE t

\* str.strip()
Strip(t) == RStrip(LStrip(t))

\* `not t` / `not t.strip()`
Truthy(t) == t # <<>>

Min(a, b) == IF a <= b THEN a ELSE b

\* preview[:50].replace("\n", " ")
Preview(t) ==
    LET cut == SubSeq(t, 1, Min(PreviewLen, Len(t)))
    IN  [i \in 1..Len(cut) |-> IF cut[i] = "n" THEN " " ELSE cut[i]]

\* The texts the model draws from.
SrcTexts == {<<"x">>, <<" ">>}
ResultTexts == {<<>>, <<"t">>}

\* ------------------------------------------------------------- partitioner
\* Python's items[a:b] for 0 <= a <= b (clipped to the list).
Slice(items, a, b) == SubSeq(items, Min(a, Len(items)) + 1, Min(b, Len(items)))

RECURSIVE SplitLoopOffByOne(_, _, _, _, _, _)
SplitLoopOffByOne(items, n, k, remainder, i, start) ==
    IF i >= n THEN <<>>
    ELSE LET size == k + (IF i <= remainder THEN 1 ELSE 0)
         IN  <<Slice(items, start, start + size)>>
             \o SplitLoopOffByOne(items, n, k, remainder, i + 1, start + size)

\* The for-loop of _split_chunks: i runs over range(n).
RECURSIVE SplitLoop(_, _, _, _, _, _)
SplitLoop(items, n, k, remainder, i, start) ==
    IF i >= n THEN <<>>
    ELSE LET size == k + (IF i < remainder THEN 1 ELSE 0)
         IN  <<Slice(items, start, start + size)>>
             \o SplitLoop(items, n, k, remainder, i + 1, start + size)

\* Mutant: the remainder is handed out to one chunk too many.
SplitChunksOffByOne(items, n) ==
    IF n <= 1 THEN <<items>>
    ELSE SplitLoopOffByOne(items, n, Len(items) \div n, Len(items) % n, 0, 0)

\* Mutant: empty chunks are dropped, so at most len(items) chunks come back.
SplitChunksDropEmpty(items, n) ==
    IF n <= 1 THEN <<items>>
    ELSE SelectSeq(SplitLoop(items, n, Len(items) \div n, Len(items) % n, 0, 0),
                   LAMBDA c : c # <<>>)

\* TranslationEngine._split_chunks
SplitChunks(items, n) ==
    IF n <= 1 THEN <<items>>
    ELSE SplitLoop(items, n, Len(items) \div n, Len(items) % n, 0, 0)

RECURSIVE Concat(_)
Concat(chunks) == IF chunks = <<>> THEN <<>> ELSE Head(chunks) \o Concat(Tail(chunks))

Range(s) == {s[i] : i \in DOMAIN s}

\* --------------------------------------------------------------- variables
VARIABLES
    entries,          \* project entries: id -> [status, original, translation]
    threads,          \* engine._threads: per thread, is it running
    workers,          \* engine._workers: the worker objects and their position
    total,            \* engine._total
    progressCount,    \* engine._progress_count
    translateCount,   \* engine._translate_count
    finishedWorkers,  \* engine._finished_workers
    mainQueue,        \* events posted to the main thread, in posting order
    mainPc,           \* what the main thread is executing
    cancelIdx,        \* position of cancel()'s loop over the workers
    lastProgress,     \* last progress(current, total, text) emitted
    errorCount,       \* error signals relayed in the current run
    checkpointCount,  \* checkpoint signals emitted in the current run
    checkpointSeen,   \* the project as the slot of the latest checkpoint saw it
    finishedEmitted,  \* engine.finished signals since the latest accepted or
                      \* empty batch call began
    lastCall,         \* outcome of the latest batch invocation
    runEligible,      \* to_translate / to_polish of the latest accepted run
    touched,          \* ids the latest run called the client for or wrote to
    cancelInvoked,    \* cancel() was invoked during the current run
    splitIn,          \* input of a stand-alone _split_chunks call
    splitOut,         \* its result
    tuner             \* the AutoTunerWorker: its fields, position and signals

engineVars == <<threads, workers, total, progressCount, translateCount,
                finishedWorkers>>
observed == <<lastProgress, errorCount, checkpointCount, checkpointSeen,
             finishedEmitted>>
ghostVars == <<lastCall, runEligible, touched, cancelInvoked>>
splitVars == <<splitIn, splitOut>>
vars == <<entries, engineVars, mainQueue, mainPc, cancelIdx, observed, ghostVars,
          splitVars, tuner>>

Ids == 1..MaxEntries

AllIds == [i \in DOMAIN entries |-> i]   \* the list the caller passes: project.entries

\* Texts of item_processed events that are not previews.
SkippedText == <<"(skipped)">>
EmptyText == <<"(empty)">>
ErrorText == <<"error">>

Event(type, id, text) == [type |-> type, id |-> id, text |-> text]

\* Outcomes of one client call: a result text, or a failure the worker catches
\* (ConnectionError, requests.RequestException, ValueError, OSError).
Outcomes == [ok : {TRUE}, text : ResultTexts] \cup [ok : {FALSE}, text : {ErrorText}]

\* ------------------------------------------------------------------ engine
\* Mutant: the reentrancy guard is gone.
IsRunningNever == FALSE

\* TranslationEngine.is_running
IsRunning == \E i \in DOMAIN threads : threads[i] = "running"

\* Mutant: translate mode keeps every entry that is not skipped.
EligibleLoose(mode, e) ==
    IF mode = "translate" THEN e.status # "skipped"
    ELSE e.status \in {"translated", "reviewed"}

\* The list comprehensions of translate_batch and polish_batch.
Eligible(mode, e) ==
    IF mode = "translate" THEN e.status = "untranslated"
    ELSE /\ e.status \in {"translated", "reviewed"}
         /\ Truthy(e.translation)
         /\ Truthy(Strip(e.translation))

ToProcess(mode, ids) == SelectSeq(ids, LAMBDA id : Eligible(mode, entries[id]))

\* The worker is not inside a client call.
NoRequest == [fn |-> "none", text |-> <<>>]

\* self.client.polish(text=entry.translation) in polish mode, otherwise
\* self.client.translate(text=entry.original, ...)
Request(mode, e) ==
    IF mode = "polish" THEN [fn |-> "polish", text |-> e.translation]
    ELSE [fn |-> "translate", text |-> e.original]

\* TranslationWorker.__init__, and the thread started on worker.run
NewWorker(chunk, mode) ==
    [entries |-> chunk, mode |-> mode, cancelled |-> FALSE, idx |-> 1, pc |-> "check",
     req |-> NoRequest]

NoProgress == [current |-> 0, total |-> 0, text |-> <<>>]

\* Entries of a project that hold a translation.
TranslatedCount(es) == Cardinality({i \in DOMAIN es : es[i].status = "translated"})

\* No checkpoint signal has reached a slot yet.
NoCheckpoint == [translated |-> 0, status |-> "", translation |-> <<>>]

\* Mutant: the rejected call signals completion like the empty one.
RejectCallSignals ==
    /\ finishedEmitted' = finishedEmitted + 1
    /\ lastCall' = "rejected"
    /\ UNCHANGED <<entries, engineVars, mainQueue, mainPc, cancelIdx, lastProgress,
                   errorCount, checkpointSeen, checkpointCount, runEligible, touched,
                   cancelInvoked, splitVars, tuner>>

\* translate_batch / polish_batch while a run is active: return at once.
RejectCall ==
    /\ lastCall' = "rejected"
    /\ UNCHANGED <<entries, engineVars, mainQueue, mainPc, cancelIdx, observed, 
                   runEligible, touched, cancelInvoked, splitVars, tuner>>

\* Mutant: the empty call returns without a signal.
EmptyCallSilent ==
    /\ finishedEmitted' = 0
    /\ lastCall' = "empty"
    /\ UNCHANGED <<entries, engineVars, mainQueue, mainPc, cancelIdx, lastProgress,
                   errorCount, checkpointSeen, checkpointCount, runEligible, touched,
                   cancelInvoked, splitVars, tuner>>

\* No entry passes the filter: finished is emitted and nothing else happens.
EmptyCall ==
    /\ finishedEmitted' = 1
    /\ lastCall' = "empty"
    /\ UNCHANGED <<entries, engineVars, mainQueue, mainPc, cancelIdx, lastProgress,
                   errorCount, checkpointSeen, checkpointCount, runEligible, touched,
                   cancelInvoked, splitVars, tuner>>

\* Mutant: as many chunks as configured workers, however few the entries.
ChunkCountFixed(todo) == NumWorkers

\* n = min(self.num_workers, len(to_translate))
ChunkCount(todo) == Min(NumWorkers, Len(todo))

\* The counters are reset, the list is split, one worker and thread are made
\* per chunk and all the threads are started.
AcceptCall(mode, todo) ==
    LET n == ChunkCount(todo)
        chunks == SplitChunks(todo, n)
    IN  /\ total' = Len(todo)
        /\ progressCount' = 0
        /\ translateCount' = 0
        /\ finishedWorkers' = 0
        /\ workers' = [i \in 1..Len(chunks) |-> NewWorker(chunks[i], mode)]
        /\ threads' = [i \in 1..Len(chunks) |-> "running"]
        /\ lastCall' = "accepted"
        /\ runEligible' = todo
        /\ touched' = {}
        /\ cancelInvoked' = FALSE
        /\ lastProgress' = NoProgress
        /\ errorCount' = 0
        /\ checkpointCount' = 0
        /\ finishedEmitted' = 0
        /\ UNCHANGED <<entries, mainQueue, mainPc, cancelIdx, checkpointSeen,
                       splitVars, tuner>>

BatchCall(mode) ==
    /\ mainPc = "idle"
    /\ IF IsRunning THEN RejectCall
       ELSE LET todo == ToProcess(mode, AllIds)
            IN  IF todo = <<>> THEN EmptyCall ELSE AcceptCall(mode, todo)

\* TranslationEngine.translate_batch(project.entries)
TranslateBatch == BatchCall("translate")

\* TranslationEngine.polish_batch(project.entries)
PolishBatch == BatchCall("polish")

\* ------------------------------------------------------------------ worker
\* Mutant: the newest event is delivered first.
PostFront(ev) == mainQueue' = <<ev>> \o mainQueue

\* Mutant: a worker's finished signal overtakes the events queued before it.
PostFinishedFirst(ev) ==
    mainQueue' = IF ev.type = "finished" THEN <<ev>> \o mainQueue
                 ELSE Append(mainQueue, ev)

\* A signal emitted in a worker thread is queued for the main thread.
Post(ev) == mainQueue' = Append(mainQueue, ev)

SetWorker(i, w) == workers' = [workers EXCEPT ![i] = w]

\* Mutant: the loop never looks at the cancellation flag.
LoopEndsNoFlag(w) == w.idx > Len(w.entries)

\* Mutant: the flag is looked at only after an item, not before the first one.
LoopEndsFlagAfterItem(w) == w.idx > Len(w.entries) \/ (w.cancelled /\ w.idx > 1)

\* `for entry in self.entries: if self._cancelled: break`
LoopEnds(w) == w.idx > Len(w.entries) \/ w.cancelled

\* Mutant: a cancelled worker returns from run() without its finished signal.
WorkerCheckSilentCancel(i) ==
    LET w == workers[i]
    IN  /\ w.pc = "check"
        /\ IF w.cancelled
           THEN /\ SetWorker(i, [w EXCEPT !.pc = "returning"])
                /\ UNCHANGED mainQueue
           ELSE IF w.idx > Len(w.entries)
           THEN /\ Post(Event("finished", 0, <<>>))
                /\ SetWorker(i, [w EXCEPT !.pc = "returning"])
           ELSE /\ SetWorker(i, [w EXCEPT !.pc = "body"])
                /\ UNCHANGED mainQueue
        /\ UNCHANGED <<entries, threads, total, progressCount, translateCount,
                       finishedWorkers, mainPc, cancelIdx, observed, ghostVars,
                       splitVars, tuner>>

\* Top of the loop of TranslationWorker.run: the next entry is taken up, or the
\* loop is left and self.finished.emit(), the last statement of run(), runs.
WorkerCheck(i) ==
    LET w == workers[i]
    IN  /\ w.pc = "check"
        /\ IF LoopEnds(w)
           THEN /\ Post(Event("finished", 0, <<>>))
                /\ SetWorker(i, [w EXCEPT !.pc = "returning"])
           ELSE /\ SetWorker(i, [w EXCEPT !.pc = "body"])
                /\ UNCHANGED mainQueue
        /\ UNCHANGED <<entries, threads, total, progressCount, translateCount,
                       finishedWorkers, mainPc, cancelIdx, observed, ghostVars,
                       splitVars, tuner>>

\* Mutant: translate mode does not look at the status before calling the client.
WorkerBodyNoStatusTest(i) ==
    LET w == workers[i]
        id == w.entries[w.idx]
        e == entries[id]
        next == [w EXCEPT !.idx = @ + 1, !.pc = "check"]
    IN  /\ w.pc = "body"
        /\ IF w.mode = "translate" /\ ~Truthy(Strip(e.original))
           THEN /\ entries' = [entries EXCEPT ![id].status = "skipped"]
                /\ touched' = touched \cup {id}
                /\ Post(Event("item_processed", id, EmptyText))
                /\ SetWorker(i, next)
           ELSE IF w.mode = "polish"
                   /\ (~Truthy(e.translation) \/ ~Truthy(Strip(e.translation)))
           THEN /\ Post(Event("item_processed", id, SkippedText))
                /\ SetWorker(i, next)
                /\ UNCHANGED <<entries, touched>>
           ELSE /\ Post(Event("item_processed", id,
                              Preview(IF w.mode = "polish" THEN e.translation
                                      ELSE e.original)))
                /\ SetWorker(i, [w EXCEPT !.pc = "call", !.req = Request(w.mode, e)])
                /\ touched' = touched \cup {id}
                /\ UNCHANGED entries
        /\ UNCHANGED <<threads, total, progressCount, translateCount, finishedWorkers,
                       mainPc, cancelIdx, observed, lastCall, runEligible,
                       cancelInvoked, splitVars, tuner>>

\* Mutant: an entry with a blank original is marked skipped without an
\* item_processed signal.
WorkerBodySilentEmpty(i) ==
    LET w == workers[i]
        id == w.entries[w.idx]
        e == entries[id]
        next == [w EXCEPT !.idx = @ + 1, !.pc = "check"]
    IN  /\ w.pc = "body"
        /\ IF w.mode = "translate" /\ e.status \in {"translated", "reviewed", "skipped"}
           THEN /\ Post(Event("item_processed", id, SkippedText))
                /\ SetWorker(i, next)
                /\ UNCHANGED <<entries, touched>>
           ELSE IF w.mode = "translate" /\ ~Truthy(Strip(e.original))
           THEN /\ entries' = [entries EXCEPT ![id].status = "skipped"]
                /\ touched' = touched \cup {id}
                /\ UNCHANGED mainQueue
                /\ SetWorker(i, next)
           ELSE IF w.mode = "polish"
                   /\ (~Truthy(e.translation) \/ ~Truthy(Strip(e.translation)))
           THEN /\ Post(Event("item_processed", id, SkippedText))
                /\ SetWorker(i, next)
                /\ UNCHANGED <<entries, touched>>
           ELSE /\ Post(Event("item_processed", id,
                              Preview(IF w.mode = "polish" THEN e.translation
                                      ELSE e.original)))
                /\ SetWorker(i, [w EXCEPT !.pc = "call", !.req = Request(w.mode, e)])
                /\ touched' = touched \cup {id}
                /\ UNCHANGED entries
        /\ UNCHANGED <<threads, total, progressCount, translateCount, finishedWorkers,
                       mainPc, cancelIdx, observed, lastCall, runEligible,
                       cancelInvoked, splitVars, tuner>>

\* The skip tests, then item_processed and the start of the client call.
WorkerBody(i) ==
    LET w == workers[i]
        id == w.entries[w.idx]
        e == entries[id]
        next == [w EXCEPT !.idx = @ + 1, !.pc = "check"]
    IN  /\ w.pc = "body"
        /\ IF w.mode = "translate" /\ e.status \in {"translated", "reviewed", "skipped"}
           THEN /\ Post(Event("item_processed", id, SkippedText))
                /\ SetWorker(i, next)
                /\ UNCHANGED <<entries, touched>>
           ELSE IF w.mode = "translate" /\ ~Truthy(Strip(e.original))
           THEN /\ entries' = [entries EXCEPT ![id].status = "skipped"]
                /\ touched' = touched \cup {id}
                /\ Post(Event("item_processed", id, EmptyText))
                /\ SetWorker(i, next)
           ELSE IF w.mode = "polish"
                   /\ (~Truthy(e.translation) \/ ~Truthy(Strip(e.translation)))
           THEN /\ Post(Event("item_processed", id, SkippedText))
                /\ SetWorker(i, next)
                /\ UNCHANGED <<entries, touched>>
           ELSE /\ Post(Event("item_processed", id,
                              Preview(IF w.mode = "polish" THEN e.translation
                                      ELSE e.original)))
                /\ SetWorker(i, [w EXCEPT !.pc = "call", !.req = Request(w.mode, e)])
                /\ touched' = touched \cup {id}
                /\ UNCHANGED entries
        /\ UNCHANGED <<threads, total, progressCount, translateCount, finishedWorkers,
                       mainPc, cancelIdx, observed, lastCall, runEligible,
                       cancelInvoked, splitVars, tuner>>

\* Mutant: a failing call ends the loop over the chunk.
WorkerCallReturnAbort(i, outcome) ==
    LET w == workers[i]
        id == w.entries[w.idx]
    IN  /\ w.pc = "call"
        /\ Post(IF outcome.ok THEN Event("entry_done", id, outcome.text)
                ELSE Event("error", id, outcome.text))
        /\ SetWorker(i, [w EXCEPT !.idx = IF outcome.ok THEN @ + 1
                                          ELSE Len(w.entries) + 1,
                                  !.pc = "check", !.req = NoRequest])
        /\ UNCHANGED <<entries, threads, total, progressCount, translateCount,
                       finishedWorkers, mainPc, cancelIdx, observed, ghostVars,
                       splitVars, tuner>>

\* client.translate / client.polish returns or raises: entry_done or error.
WorkerCallReturn(i, outcome) ==
    LET w == workers[i]
        id == w.entries[w.idx]
    IN  /\ w.pc = "call"
        /\ Post(IF outcome.ok THEN Event("entry_done", id, outcome.text)
                ELSE Event("error", id, outcome.text))
        /\ SetWorker(i, [w EXCEPT !.idx = @ + 1, !.pc = "check", !.req = NoRequest])
        /\ UNCHANGED <<entries, threads, total, progressCount, translateCount,
                       finishedWorkers, mainPc, cancelIdx, observed, ghostVars,
                       splitVars, tuner>>

\* run() returns to the thread, which then does nothing until it is quit.
WorkerReturn(i) ==
    LET w == workers[i]
    IN  /\ w.pc = "returning"
        /\ SetWorker(i, [w EXCEPT !.pc = "exited"])
        /\ UNCHANGED <<entries, threads, total, progressCount, translateCount,
                       finishedWorkers, mainQueue, mainPc, cancelIdx, observed,
                       ghostVars, splitVars, tuner>>

\* ------------------------------------------------- main thread: the handlers
Handling(type) ==
    /\ mainPc = "idle"
    /\ mainQueue # <<>>
    /\ Head(mainQueue).type = type
    /\ mainQueue' = Tail(mainQueue)

\* Mutant: the counter is read before the event is taken and written after,
\* so an update is lost whenever a second item event is already waiting.
OnItemProcessedLossy ==
    /\ Handling("item_processed")
    /\ progressCount' = IF Len(mainQueue) >= 2 /\ mainQueue[2].type = "item_processed"
                        THEN progressCount ELSE progressCount + 1
    /\ lastProgress' = [current |-> progressCount', total |-> total,
                        text |-> Head(mainQueue).text]
    /\ UNCHANGED <<entries, threads, workers, total, translateCount, finishedWorkers,
                   mainPc, cancelIdx, errorCount, checkpointSeen, checkpointCount,
                   finishedEmitted, ghostVars, splitVars, tuner>>

\* TranslationEngine._on_item_processed
OnItemProcessed ==
    /\ Handling("item_processed")
    /\ progressCount' = progressCount + 1
    /\ lastProgress' = [current |-> progressCount + 1, total |-> total,
                        text |-> Head(mainQueue).text]
    /\ UNCHANGED <<entries, threads, workers, total, translateCount, finishedWorkers,
                   mainPc, cancelIdx, errorCount, checkpointSeen, checkpointCount,
                   finishedEmitted, ghostVars, splitVars, tuner>>

\* MainWindow._on_entry_done, the slot of engine.entry_done
ApplyEntryDone(id, translation) ==
    /\ entries' = [entries EXCEPT ![id].translation = translation,
                                  ![id].status = "translated"]
    /\ touched' = touched \cup {id}

\* Mutant: the checkpoint fires at the first multiple only.
CheckpointDueOnce(count) == count = CHECKPOINT_INTERVAL

\* self._translate_count % self.CHECKPOINT_INTERVAL == 0
CheckpointDue(count) == count % CHECKPOINT_INTERVAL = 0

\* Mutant: the checkpoint is emitted before the result is relayed.
CheckpointSeesStale(before, after, id) ==
    [translated |-> TranslatedCount(before), status |-> before[id].status,
     translation |-> before[id].translation]

\* entry_done is emitted, and its slot has run, before checkpoint is emitted:
\* a slot of checkpoint sees the project with the result in it.
CheckpointSees(before, after, id) ==
    [translated |-> TranslatedCount(after), status |-> after[id].status,
     translation |-> after[id].translation]

\* TranslationEngine._on_entry_done
OnEntryDone ==
    /\ Handling("entry_done")
    /\ ApplyEntryDone(Head(mainQueue).id, Head(mainQueue).text)
    /\ translateCount' = translateCount + 1
    /\ checkpointCount' = IF CheckpointDue(translateCount + 1)
                          THEN checkpointCount + 1 ELSE checkpointCount
    /\ checkpointSeen' = IF CheckpointDue(translateCount + 1)
                         THEN CheckpointSees(entries, entries', Head(mainQueue).id)
                         ELSE checkpointSeen
    /\ UNCHANGED <<threads, workers, total, progressCount, finishedWorkers, mainPc,
                   cancelIdx, lastProgress, errorCount, finishedEmitted, 
                   lastCall, runEligible, cancelInvoked, splitVars, tuner>>

\* worker.error relayed by engine.error to MainWindow._on_error
OnError ==
    /\ Handling("error")
    /\ errorCount' = errorCount + 1
    /\ UNCHANGED <<entries, engineVars, mainPc, cancelIdx, lastProgress,
                   checkpointSeen, checkpointCount, finishedEmitted, ghostVars,
                   splitVars, tuner>>

\* Mutant: finished is declared at the first worker-done event.
AllDoneFirst(count) == count >= 1

\* Mutant: the comparison is strict, so the last worker-done is not enough.
AllDoneStrict(count) == count > Len(workers)

\* The test of _on_worker_finished
AllDone(count) == count >= Len(workers)

\* TranslationEngine._on_worker_finished, up to the clean-up
OnWorkerFinished ==
    /\ Handling("finished")
    /\ finishedWorkers' = finishedWorkers + 1
    /\ mainPc' = IF AllDone(finishedWorkers + 1) THEN "joining" ELSE "idle"
    /\ UNCHANGED <<entries, threads, workers, total, progressCount, translateCount,
                   cancelIdx, observed, ghostVars, splitVars, tuner>>

\* thread.wait() returns once the thread has left run()
ThreadsJoined == \A i \in DOMAIN workers : workers[i].pc = "exited"

\* The clean-up of _on_worker_finished: quit and wait for every thread, drop
\* the lists, emit finished.
JoinThreads ==
    /\ mainPc = "joining"
    /\ ThreadsJoined
    /\ threads' = <<>>
    /\ workers' = <<>>
    /\ finishedEmitted' = finishedEmitted + 1
    /\ mainPc' = "idle"
    /\ UNCHANGED <<entries, total, progressCount, translateCount, finishedWorkers,
                   mainQueue, cancelIdx, lastProgress, errorCount, checkpointSeen,
                   checkpointCount, ghostVars, splitVars, tuner>>

\* --------------------------------------------------------------- cancel()
\* MainWindow._stop_translation calls engine.cancel(); its action is enabled
\* when a batch starts and disabled by the click and by the end of the run.
CancelBegin ==
    /\ mainPc = "idle"
    /\ IsRunning
    /\ ~cancelInvoked
    /\ mainPc' = "cancel"
    /\ cancelIdx' = 1
    /\ cancelInvoked' = TRUE
    /\ UNCHANGED <<entries, engineVars, mainQueue, observed, lastCall,
                   runEligible, touched, splitVars, tuner>>

\* TranslationWorker.cancel
SetCancelled(w) == [w EXCEPT !.cancelled = TRUE]

\* Mutant: cancel() sets the flag of the first worker only.
CancelTargetFirst(k) == IF k = 1 THEN SetCancelled(workers[k]) ELSE workers[k]

\* worker.cancel() on the k-th worker of self._workers
CancelTarget(k) == SetCancelled(workers[k])

\* One iteration of `for worker in self._workers: worker.cancel()`; cancel()
\* returns after the last one.
CancelStep ==
    /\ mainPc = "cancel"
    /\ cancelIdx <= Len(workers)
    /\ workers' = [workers EXCEPT ![cancelIdx] = CancelTarget(cancelIdx)]
    /\ cancelIdx' = IF cancelIdx = Len(workers) THEN 0 ELSE cancelIdx + 1
    /\ mainPc' = IF cancelIdx = Len(workers) THEN "idle" ELSE "cancel"
    /\ UNCHANGED <<entries, threads, total, progressCount, translateCount,
                   finishedWorkers, mainQueue, observed, ghostVars, splitVars, tuner>>

\* ------------------------------------------------------------ AutoTunerWorker
SURVEY_STEPS == <<5, 10, 15, 20, 25, 30>>
REPS == 3
WARMUP_SIZE == 2
MIN_ENTRIES == 107
CloudBatchSize == 30    \* self.finished.emit(30)
TooFewBatchSize == 1    \* self.finished.emit(1)

\* A throughput is the quotient success / elapsed, kept as the pair
\* <<numerator, denominator>> in lowest terms; 0.0 is <<0, 1>>.
Zero == <<0, 1>>

\* The one element of a singleton; its use below is to compute a value once
\* and name it.
Sole(S) == CHOOSE x \in S : TRUE

RECURSIVE GCD(_, _)
GCD(a, b) == IF b = 0 THEN a ELSE Sole({GCD(y, r) : y \in {b}, r \in {a % b}})

Reduced(a) ==
    Sole({IF v[1] = 0 THEN Zero ELSE Sole({<<v[1] \div g, v[2] \div g>> : g \in {GCD(v[1], v[2])}})
            : v \in {a}})

RatLess(a, b) == a[1] * b[2] < b[1] * a[2]

RatEq(a, b) == a[1] * b[2] = b[1] * a[2]

RatAdd(a, b) == Reduced(<<a[1] * b[2] + b[1] * a[2], a[2] * b[2]>>)

RECURSIVE RatSum(_)
RatSum(list) ==
    IF list = <<>> THEN Zero
    ELSE Sole({RatAdd(h, rest) : h \in {Head(list)}, rest \in {RatSum(Tail(list))}})

\* sum(eps_list) / len(eps_list)
Average(list) == Sole({Reduced(<<sum[1], sum[2] * Len(list)>>) : sum \in {RatSum(list)}})

\* eps = success / elapsed if elapsed > 0 and success > 0 else 0.0
Throughput(success, elapsed) ==
    IF elapsed > 0 /\ success > 0 THEN Reduced(<<success, elapsed>>) ELSE Zero

\* Mutant: among equal throughputs the last of the list is taken.
LastMax(list) ==
    CHOOSE i \in DOMAIN list :
        /\ \A j \in DOMAIN list : ~RatLess(list[i].eps, list[j].eps)
        /\ \A j \in (i + 1)..Len(list) : RatLess(list[j].eps, list[i].eps)

\* Position of the first greatest element of a list of [size, eps] records.
FirstMax(list) ==
    CHOOSE i \in DOMAIN list :
        /\ \A j \in DOMAIN list : ~RatLess(list[i].eps, list[j].eps)
        /\ \A j \in 1..(i - 1) : RatLess(list[j].eps, list[i].eps)

RemoveAt(list, i) == SubSeq(list, 1, i - 1) \o SubSeq(list, i + 1, Len(list))

\* A ranking that leaves the list in the order it came in.
SortedAsGiven(list) == list

\* sorted(list, key=lambda r: r[1], reverse=True): a stable sort, so equal
\* throughputs keep their order in the list.
RECURSIVE SortedDesc(_)
SortedDesc(list) ==
    IF list = <<>> THEN <<>>
    ELSE Sole({<<l[m]>> \o SortedDesc(RemoveAt(l, m)) : l \in {list}, m \in {FirstMax(list)}})

\* sorted(...)[:k]
Top(list, k) == SubSeq(SortedDesc(list), 1, Min(k, Len(list)))

Sizes(list) == [i \in DOMAIN list |-> list[i].size]

\* max(d, key=lambda s: d[s]): among equal throughputs the first in the list.
MaxFirst(list) == list[FirstMax(list)].size

\* max(d, key=lambda s: (d[s], s)) over a list of [size, eps] records with
\* distinct sizes: the greatest throughput, and among equals the largest size.
MaxBySizeTieBreak(list) ==
    Sole({(CHOOSE r \in rs :
              \A q \in rs :
                  \/ RatLess(q.eps, r.eps)
                  \/ RatEq(q.eps, r.eps) /\ q.size <= r.size).size : rs \in {Range(list)}})

\* No calibration was set up.
NoTuner == [pc |-> "none"]

\* AutoTunerWorker.__init__: cloud is client.is_cloud, eligible the number of
\* entries of self.entries that are untranslated with a non-blank original, and
\* ticks the time the client takes for a batch of each size; `last` is what
\* the client did with the latest call, none so far.
NewTuner(cloud, eligible, ticks) ==
    [pc |-> "start", cloud |-> cloud, eligible |-> eligible, ticks |-> ticks,
     cancelled |-> FALSE, consumed |-> 0, avail |-> 0, offset |-> 0,
     i |-> 0, rep |-> 0, size |-> 0,
     r1 |-> <<>>, top3 |-> <<>>, r2 |-> <<>>, top2 |-> <<>>, r3 |-> <<>>,
     faults |-> 0,
     last |-> [raised |-> FALSE, good |-> 0, empty |-> 0, unknown |-> 0, elapsed |-> 0],
     batches |-> <<>>, out |-> <<>>]

\* A signal of the worker is emitted.
Emit(t, sig, val) == [t EXCEPT !.out = Append(@, [sig |-> sig, val |-> val])]

\* self.finished.emit(size); return
Finish(t, size) == [Emit(t, "finished", size) EXCEPT !.pc = "done"]

\* batch = available[offset:offset + size]; offset += size; progress.emit(...);
\* then client.translate_batch is entered.
StartBatch(t, round, size, pc) ==
    [Emit(t, "progress", size) EXCEPT
        !.batches = Append(@, [round |-> round, offset |-> t.offset, size |-> size]),
        !.offset = @ + size,
        !.size = size,
        !.pc = pc]

\* What client.translate_batch does with a batch: it raises, or returns a
\* mapping with `good` non-empty translations under keys of the batch, `empty`
\* empty ones under keys of the batch and `unknown` entries under other keys,
\* after `elapsed` ticks.
Returned(good, empty, unknown, elapsed) ==
    [raised |-> FALSE, good |-> good, empty |-> empty, unknown |-> unknown,
     elapsed |-> elapsed]

Raised == [raised |-> TRUE, good |-> 0, empty |-> 0, unknown |-> 0, elapsed |-> 0]

\* The client at its best: every entry translated, in the time of its profile.
Nominal(t) == Returned(t.size, 0, 0, IF t.size \in DOMAIN t.ticks THEN t.ticks[t.size] ELSE 1)

\* The ways a call can fall short.
Deviations(t) ==
    {Raised,
     Returned(t.size - 1, 1, 0, Nominal(t).elapsed),
     Returned(t.size - 1, 0, 1, Nominal(t).elapsed),
     Returned(t.size, 0, 1, Nominal(t).elapsed),
     Returned(0, 0, 0, Nominal(t).elapsed),
     Returned(t.size, 0, 0, 0)}

\* A count of every returned key, known or not.
SuccessAnyKey(outcome) == outcome.good + outcome.unknown

\* success: the keys of the result that key_to_entry knows and whose
\* translation is not empty (lines 263-270).
Success(outcome) == outcome.good

\* _translate_and_emit counting its successes without emitting them.
TranslateAndEmitQuiet(t, outcome) == [t EXCEPT !.consumed = @ + Success(outcome)]

\* _translate_and_emit after the client has returned: item_processed and
\* entry_done are emitted for every known key with a non-empty translation;
\* the `good` pairs of signals are logged as one entry.
TranslateAndEmit(t, outcome) ==
    [t EXCEPT !.consumed = @ + Success(outcome),
              !.out = IF Success(outcome) > 0
                      THEN Append(@, [sig |-> "entry_done", val |-> Success(outcome)])
                      ELSE @]

\* _timed_translate with a handler that reports nothing.
TimedTranslateSilent(t, outcome) ==
    IF outcome.raised
    THEN [t |-> t, eps |-> Zero]
    ELSE [t |-> TranslateAndEmit(t, outcome),
          eps |-> Throughput(Success(outcome), outcome.elapsed)]

\* _timed_translate giving the entries of a failed batch back for another try.
TimedTranslateRewinds(t, outcome) ==
    IF outcome.raised
    THEN [t |-> [Emit(t, "error", t.size) EXCEPT !.offset = @ - t.size], eps |-> Zero]
    ELSE [t |-> TranslateAndEmit(t, outcome),
          eps |-> Throughput(Success(outcome), outcome.elapsed)]

\* _timed_translate: the worker after the call, and the sample it measured.
TimedTranslate(t, outcome) ==
    IF outcome.raised
    THEN [t |-> Emit(t, "error", t.size), eps |-> Zero]
    ELSE [t |-> TranslateAndEmit(t, outcome),
          eps |-> Throughput(Success(outcome), outcome.elapsed)]

\* r2_avg / the averages of a round: one [size, eps] per size with samples.
Averages(raw) ==
    LET kept == SelectSeq(raw, LAMBDA r : r.samples # <<>>)
    IN  [k \in DOMAIN kept |-> [size |-> kept[k].size, eps |-> Average(kept[k].samples)]]

\* r2_raw.get(size, []) + r3_raw.get(size, [])
SamplesOf(raw, size) ==
    LET hit == SelectSeq(raw, LAMBDA r : r.size = size)
    IN  IF hit = <<>> THEN <<>> ELSE hit[1].samples

\* The finalists' averages over the samples of round 3 alone.
CombinedFinalsOnly(t) ==
    Averages([k \in DOMAIN t.top2 |->
                 [size |-> t.top2[k], samples |-> SamplesOf(t.r3, t.top2[k])]])

\* combined: the finalists' averages over rounds 2 and 3 together.
Combined(t) ==
    LET all == [k \in DOMAIN t.top2 |->
                   [size |-> t.top2[k],
                    samples |-> SamplesOf(t.r2, t.top2[k]) \o SamplesOf(t.r3, t.top2[k])]]
    IN  Averages(all)

\* After the survey, with the answer of the too-few-entries case for an
\* empty r1_results.
AfterSurveyReportsOne(t) ==
    IF t.r1 = <<>> THEN Finish(t, TooFewBatchSize)
    ELSE [Emit(t, "progress", 0) EXCEPT
             !.top3 = Sizes(Top(t.r1, 3)), !.r2 = <<>>, !.i = 1, !.pc = "r2_size"]

\* Lines 126-136: after the survey loop.
AfterSurvey(t) ==
    IF t.r1 = <<>> THEN Finish(t, SURVEY_STEPS[1])
    ELSE [Emit(t, "progress", 0) EXCEPT
             !.top3 = Sizes(Top(t.r1, 3)), !.r2 = <<>>, !.i = 1, !.pc = "r2_size"]

\* After the semifinals, falling back to the last of the semifinalists.
AfterSemisReportsLast(t) ==
    IF Averages(t.r2) = <<>>
    THEN Finish(Emit(t, "progress", t.top3[Len(t.top3)]), t.top3[Len(t.top3)])
    ELSE [Emit(t, "progress", 0) EXCEPT
             !.top2 = Sizes(Top(Averages(t.r2), 2)), !.r3 = <<>>, !.i = 1,
             !.pc = "r3_size"]

\* Lines 165-186: after the semifinals.
AfterSemis(t) ==
    IF Averages(t.r2) = <<>>
    THEN Finish(Emit(t, "progress", t.top3[1]), t.top3[1])
    ELSE [Emit(t, "progress", 0) EXCEPT
             !.top2 = Sizes(Top(Averages(t.r2), 2)), !.r3 = <<>>, !.i = 1,
             !.pc = "r3_size"]

\* The winner taken from the round-2 averages of all semifinalists.
OptimalOfSemis(t) ==
    IF Averages(t.r2) # <<>> THEN MaxBySizeTieBreak(Averages(t.r2)) ELSE t.top3[1]

\* Lines 224-230
Optimal(t) ==
    IF Combined(t) # <<>> THEN MaxBySizeTieBreak(Combined(t))
    ELSE IF Averages(t.r2) # <<>> THEN MaxBySizeTieBreak(Averages(t.r2))
    ELSE t.top3[1]

\* Lines 215-235: after the finals.
AfterFinals(t) == Finish(Emit(t, "progress", Optimal(t)), Optimal(t))

\* _run_impl without the test of client.is_cloud.
StartedNoBypass(t) ==
    IF t.eligible < MIN_ENTRIES
    THEN Finish([t EXCEPT !.avail = t.eligible], TooFewBatchSize)
    ELSE LET a == [t EXCEPT !.avail = t.eligible, !.offset = 0]
         IN  IF ~a.cancelled /\ a.offset + WARMUP_SIZE <= a.avail
             THEN StartBatch(a, "warmup", WARMUP_SIZE, "warmup_call")
             ELSE [a EXCEPT !.r1 = <<>>, !.i = 1, !.pc = "r1"]

\* _run_impl with a threshold that 107 eligible entries do not meet.
StartedExclusive(t) ==
    IF t.cloud THEN Finish(t, CloudBatchSize)
    ELSE IF t.eligible <= MIN_ENTRIES
    THEN Finish([t EXCEPT !.avail = t.eligible], TooFewBatchSize)
    ELSE LET a == [t EXCEPT !.avail = t.eligible, !.offset = 0]
         IN  IF ~a.cancelled /\ a.offset + WARMUP_SIZE <= a.avail
             THEN StartBatch(a, "warmup", WARMUP_SIZE, "warmup_call")
             ELSE [a EXCEPT !.r1 = <<>>, !.i = 1, !.pc = "r1"]

\* Lines 76-101: the bypass, the eligibility filter and the entry to the warmup.
Started(t) ==
    IF t.cloud THEN Finish(t, CloudBatchSize)
    ELSE IF t.eligible < MIN_ENTRIES
    THEN Finish([t EXCEPT !.avail = t.eligible], TooFewBatchSize)
    ELSE LET a == [t EXCEPT !.avail = t.eligible, !.offset = 0]
         IN  IF ~a.cancelled /\ a.offset + WARMUP_SIZE <= a.avail
             THEN StartBatch(a, "warmup", WARMUP_SIZE, "warmup_call")
             ELSE [a EXCEPT !.r1 = <<>>, !.i = 1, !.pc = "r1"]

\* The warmup with a handler that goes on to the survey.
WarmedUpCarryOn(t, outcome) ==
    IF outcome.raised THEN [t EXCEPT !.r1 = <<>>, !.i = 1, !.pc = "r1"]
    ELSE [TranslateAndEmit(t, outcome) EXCEPT !.r1 = <<>>, !.i = 1, !.pc = "r1"]

\* Lines 96-104: the warmup call has ended.
WarmedUp(t, outcome) ==
    IF outcome.raised THEN Finish(t, SURVEY_STEPS[1])
    ELSE [TranslateAndEmit(t, outcome) EXCEPT !.r1 = <<>>, !.i = 1, !.pc = "r1"]

\* The survey loop with a test that asks for one more entry than the batch takes.
SurveyedStrict(t) ==
    IF /\ t.i <= Len(SURVEY_STEPS)
       /\ ~t.cancelled
       /\ t.offset + SURVEY_STEPS[t.i] < t.avail
    THEN StartBatch(t, "survey", SURVEY_STEPS[t.i], "r1_call")
    ELSE AfterSurvey(t)

\* Lines 106-119: the head of the survey loop.
Surveyed(t) ==
    IF /\ t.i <= Len(SURVEY_STEPS)
       /\ ~t.cancelled
       /\ t.offset + SURVEY_STEPS[t.i] <= t.avail
    THEN StartBatch(t, "survey", SURVEY_STEPS[t.i], "r1_call")
    ELSE AfterSurvey(t)

\* Lines 121-124
SurveySampled(t, outcome) ==
    LET m == TimedTranslate(t, outcome)
    IN  [Emit(m.t, "step_done", t.size) EXCEPT
            !.r1 = Append(@, [size |-> t.size, eps |-> m.eps]),
            !.i = @ + 1, !.pc = "r1"]

\* The head of the loop over the sizes of round 2 / 3 (lines 141-144, 191-194);
\* `after` is the worker once the code that follows the loop has run.
SizeTaken(t, sizes, raw, pc, after) ==
    IF t.i <= Len(sizes) /\ ~t.cancelled
    THEN [t EXCEPT ![raw] = Append(@, [size |-> sizes[t.i], samples |-> <<>>]),
                   !.rep = 0, !.pc = pc]
    ELSE after

\* The repetition loop without its test of the cancellation flag.
RepTakenIgnoringCancel(t, sizes, round, callPc, sizePc) ==
    IF /\ t.rep < REPS
       /\ t.offset + sizes[t.i] <= t.avail
    THEN StartBatch(t, round, sizes[t.i], callPc)
    ELSE [t EXCEPT !.i = @ + 1, !.pc = sizePc]

\* The repetition loop leaving the whole round when a repetition cannot be cut.
RepTakenEndsRound(t, sizes, round, callPc, sizePc) ==
    IF /\ t.rep < REPS
       /\ ~t.cancelled
       /\ t.offset + sizes[t.i] <= t.avail
    THEN StartBatch(t, round, sizes[t.i], callPc)
    ELSE [t EXCEPT !.i = IF t.rep < REPS /\ ~t.cancelled THEN Len(sizes) + 1 ELSE @ + 1,
                   !.pc = sizePc]

\* The head of the loop over the repetitions (lines 146-159, 196-209).
RepTaken(t, sizes, round, callPc, sizePc) ==
    IF /\ t.rep < REPS
       /\ ~t.cancelled
       /\ t.offset + sizes[t.i] <= t.avail
    THEN StartBatch(t, round, sizes[t.i], callPc)
    ELSE [t EXCEPT !.i = @ + 1, !.pc = sizePc]

\* Lines 161-163, 211-213
RepSampled(t, raw, outcome, pc) ==
    LET m == TimedTranslate(t, outcome)
        last == Len(t[raw])
    IN  [Emit(m.t, "step_done", t.size) EXCEPT
            ![raw] = [@ EXCEPT ![last].samples = Append(@, m.eps)],
            !.rep = @ + 1, !.pc = pc]

\* run() with a handler that reports the exception and returns without the
\* finished signal.
EscapedSilent(t) == [Emit(t, "error", 0) EXCEPT !.pc = "done"]

\* Lines 69-72: an exception has escaped _run_impl.
Escaped(t) == Finish(Emit(t, "error", 0), SURVEY_STEPS[1])

\* ------------------------------------------------------------ specification
InitEntries ==
    [status : {"untranslated"}, original : SrcTexts, translation : {<<>>}]
    \cup [status : {"reviewed"}, original : {<<"x">>}, translation : {<<"t">>}]

NoSplit == [items |-> <<>>, n |-> 0]
NoSplitOut == [done |-> FALSE, chunks |-> <<>>]

EngineInit ==
    /\ threads = <<>>
    /\ workers = <<>>
    /\ total = 0
    /\ progressCount = 0
    /\ translateCount = 0
    /\ finishedWorkers = 0
    /\ mainQueue = <<>>
    /\ mainPc = "idle"
    /\ cancelIdx = 0
    /\ lastProgress = NoProgress
    /\ errorCount = 0
    /\ checkpointCount = 0
    /\ checkpointSeen = NoCheckpoint
    /\ finishedEmitted = 0
    /\ lastCall = "none"
    /\ runEligible = <<>>
    /\ touched = {}
    /\ cancelInvoked = FALSE

Init ==
    /\ entries \in [Ids -> InitEntries]
    /\ EngineInit
    /\ splitIn = NoSplit
    /\ splitOut = NoSplitOut
    /\ tuner = NoTuner

\* One step of the thread of the i-th worker.
WorkerStep(i) ==
    /\ i \in DOMAIN workers
    /\ \/ WorkerCheck(i)
       \/ WorkerBody(i)
       \/ \E outcome \in Outcomes : WorkerCallReturn(i, outcome)
       \/ WorkerReturn(i)

WorkerNext == \E i \in 1..NumWorkers : WorkerStep(i)

MainNext ==
    \/ TranslateBatch
    \/ PolishBatch
    \/ OnItemProcessed
    \/ OnEntryDone
    \/ OnError
    \/ OnWorkerFinished
    \/ JoinThreads
    \/ CancelBegin
    \/ CancelStep

Next == WorkerNext \/ MainNext

Spec == Init /\ [][Next]_vars

\* Every worker thread keeps being scheduled and every client call returns or
\* fails; the main thread's event loop keeps handling the events posted to it
\* and a handler that has started runs to its end.
Fairness ==
    /\ \A i \in 1..NumWorkers : WF_vars(WorkerStep(i))
    /\ WF_vars(OnItemProcessed)
    /\ WF_vars(OnEntryDone)
    /\ WF_vars(OnError)
    /\ WF_vars(OnWorkerFinished)
    /\ WF_vars(JoinThreads)
    /\ WF_vars(CancelStep)

LiveSpec == Init /\ [][Next]_vars /\ Fairness

\* ------------------------------------------- _split_chunks called on its own
InjectiveSeqs(S, maxLen) ==
    {q \in UNION {[1..l -> S] : l \in 0..maxLen} :
        \A i, j \in DOMAIN q : q[i] = q[j] => i = j}

SplitInputs == [items : InjectiveSeqs(1..MaxSplitLen, MaxSplitLen), n : (0 - 1)..MaxSplitN]

SplitInit ==
    /\ entries = [i \in Ids |-> [status |-> "untranslated", original |-> <<"x">>,
                                 translation |-> <<>>]]
    /\ EngineInit
    /\ splitIn \in SplitInputs
    /\ splitOut = NoSplitOut
    /\ tuner = NoTuner

\* chunks = self._split_chunks(items, n)
SplitCall ==
    /\ ~splitOut.done
    /\ splitOut' = [done |-> TRUE, chunks |-> SplitChunks(splitIn.items, splitIn.n)]
    /\ UNCHANGED <<entries, engineVars, mainQueue, mainPc, cancelIdx, observed,
                   ghostVars, splitIn, tuner>>

SplitSpec == SplitInit /\ [][SplitCall]_vars

\* ------------------------------------- one TranslationWorker over a given chunk
\* Entries a worker can be handed: any status, with or without a translation.
WorkerEntries ==
    [status : {"untranslated"}, original : SrcTexts, translation : {<<>>}]
    \cup [status : {"translated"}, original : {<<"x">>},
          translation : {<<>>, <<" ">>, <<"t">>}]
    \cup [status : {"reviewed"}, original : {<<"x">>}, translation : {<<"t">>}]
    \cup [status : {"skipped"}, original : {<<" ">>}, translation : {<<>>}]

\* TranslationWorker(client, chunk, mode) built over the whole entry list, moved
\* to its thread, connected to the engine's handlers and started, as in the
\* body of the loop of translate_batch / polish_batch.
WorkerInit ==
    /\ entries \in [Ids -> WorkerEntries]
    /\ \E mode \in {"translate", "polish"} : workers = <<NewWorker(AllIds, mode)>>
    /\ threads = <<"running">>
    /\ total = Len(AllIds)
    /\ progressCount = 0
    /\ translateCount = 0
    /\ finishedWorkers = 0
    /\ mainQueue = <<>>
    /\ mainPc = "idle"
    /\ cancelIdx = 0
    /\ lastProgress = NoProgress
    /\ errorCount = 0
    /\ checkpointCount = 0
    /\ checkpointSeen = NoCheckpoint
    /\ finishedEmitted = 0
    /\ lastCall = "accepted"
    /\ runEligible = AllIds
    /\ touched = {}
    /\ cancelInvoked = FALSE
    /\ splitIn = NoSplit
    /\ splitOut = NoSplitOut
    /\ tuner = NoTuner

\* The worker's thread, the handlers its signals are connected to, and cancel().
WorkerRunNext ==
    \/ WorkerNext
    \/ OnItemProcessed
    \/ OnEntryDone
    \/ OnError
    \/ OnWorkerFinished
    \/ JoinThreads
    \/ CancelBegin
    \/ CancelStep

WorkerSpec == WorkerInit /\ [][WorkerRunNext]_vars

WorkerLiveSpec == WorkerInit /\ [][WorkerRunNext]_vars /\ Fairness

\* --------------------------------------------------------------- a long run
\* Source texts of the long project: translated by the client, refused by the
\* client, and blank.
GoodText == <<"x">>
BadText == <<"x", "x">>
BlankText == <<" ">>

\* The client of the long run answers by the text alone.
StubClient(text) ==
    IF text = BadText THEN [ok |-> FALSE, text |-> ErrorText]
    ELSE [ok |-> TRUE, text |-> <<"t">>]

\* The long projects: every entry translatable, or every 7th blank and every
\* 5th refused by the client.
LongProjects ==
    { [i \in 1..MaxLongRun |-> [status |-> "untranslated", original |-> GoodText,
                                translation |-> <<>>]],
      [i \in 1..MaxLongRun |->
          [status |-> "untranslated",
           original |-> IF i % 7 = 0 THEN BlankText
                        ELSE IF i % 5 = 0 THEN BadText ELSE GoodText,
           translation |-> <<>>]] }

LongInit ==
    /\ entries \in LongProjects
    /\ EngineInit
    /\ splitIn = NoSplit
    /\ splitOut = NoSplitOut
    /\ tuner = NoTuner

\* A step of a worker thread while fewer than MaxBacklog events wait.
LongWorkerStep(i) ==
    /\ i \in DOMAIN workers
    /\ Len(mainQueue) < MaxBacklog
    /\ \/ WorkerCheck(i)
       \/ WorkerBody(i)
       \/ /\ workers[i].pc = "call"
          /\ WorkerCallReturn(i, StubClient(workers[i].req.text))
       \/ WorkerReturn(i)

LongNext ==
    \/ TranslateBatch
    \/ \E i \in 1..NumWorkers : LongWorkerStep(i)
    \/ OnItemProcessed
    \/ OnEntryDone
    \/ OnError
    \/ OnWorkerFinished
    \/ JoinThreads

LongSpec == LongInit /\ [][LongNext]_vars

\* ---------------------------------------------------------- a calibration
TunerOnly ==
    UNCHANGED <<entries, engineVars, mainQueue, mainPc, cancelIdx, observed, ghostVars,
                splitVars>>

\* The outcomes the client may give the call the worker is in, and the worker
\* with the call accounted for.
Calls(t) == {Nominal(t)} \cup (IF t.faults < MaxFaults THEN Deviations(t) ELSE {})

Charge(t, outcome) ==
    [t EXCEPT !.faults = IF outcome = Nominal(t) THEN @ ELSE @ + 1, !.last = outcome]

\* run() up to the first client call or the first test of the flag after it
TunerStart ==
    /\ tuner.pc = "start"
    /\ tuner' = Started(tuner)
    /\ TunerOnly

TunerWarmupReturn ==
    /\ tuner.pc = "warmup_call"
    /\ \E outcome \in Calls(tuner) : tuner' = WarmedUp(Charge(tuner, outcome), outcome)
    /\ TunerOnly

TunerSurvey ==
    /\ tuner.pc = "r1"
    /\ tuner' = Surveyed(tuner)
    /\ TunerOnly

TunerSurveyReturn ==
    /\ tuner.pc = "r1_call"
    /\ \E outcome \in Calls(tuner) :
          tuner' = SurveySampled(Charge(tuner, outcome), outcome)
    /\ TunerOnly

TunerSemiSize ==
    /\ tuner.pc = "r2_size"
    /\ tuner' = SizeTaken(tuner, tuner.top3, "r2", "r2_rep", AfterSemis(tuner))
    /\ TunerOnly

TunerSemiRep ==
    /\ tuner.pc = "r2_rep"
    /\ tuner' = RepTaken(tuner, tuner.top3, "semis", "r2_call", "r2_size")
    /\ TunerOnly

TunerSemiReturn ==
    /\ tuner.pc = "r2_call"
    /\ \E outcome \in Calls(tuner) :
          tuner' = RepSampled(Charge(tuner, outcome), "r2", outcome, "r2_rep")
    /\ TunerOnly

TunerFinalSize ==
    /\ tuner.pc = "r3_size"
    /\ tuner' = SizeTaken(tuner, tuner.top2, "r3", "r3_rep", AfterFinals(tuner))
    /\ TunerOnly

TunerFinalRep ==
    /\ tuner.pc = "r3_rep"
    /\ tuner' = RepTaken(tuner, tuner.top2, "finals", "r3_call", "r3_size")
    /\ TunerOnly

TunerFinalReturn ==
    /\ tuner.pc = "r3_call"
    /\ \E outcome \in Calls(tuner) :
          tuner' = RepSampled(Charge(tuner, outcome), "r3", outcome, "r3_rep")
    /\ TunerOnly

\* An exception raised outside the client calls, which have handlers of their
\* own, is caught by run().
TunerRaise ==
    /\ tuner.pc \in {"start", "r1", "r2_size", "r2_rep", "r3_size", "r3_rep"}
    /\ tuner' = Escaped(tuner)
    /\ TunerOnly

\* AutoTunerWorker.cancel, called from the main thread
TunerCancel ==
    /\ tuner.pc # "none"
    /\ ~tuner.cancelled
    /\ tuner' = [tuner EXCEPT !.cancelled = TRUE]
    /\ TunerOnly

\* The numbers of eligible entries and the client profiles (ticks per batch
\* of each size) the calibrations are run with.
EligibleCounts == {106, 107, 152, 557}

TickProfiles ==
    { [s \in Range(SURVEY_STEPS) |-> 1],
      [s \in Range(SURVEY_STEPS) |-> s \div 5],
      (5 :> 2) @@ (10 :> 2) @@ (15 :> 1) @@ (20 :> 4) @@ (25 :> 5) @@ (30 :> 10),
      [s \in Range(SURVEY_STEPS) |-> 0] }

TunerInit ==
    /\ entries = [i \in Ids |-> [status |-> "untranslated", original |-> <<"x">>,
                                 translation |-> <<>>]]
    /\ EngineInit
    /\ splitIn = NoSplit
    /\ splitOut = NoSplitOut
    /\ tuner \in {NewTuner(c, n, p) : c \in BOOLEAN, n \in EligibleCounts, p \in TickProfiles}

\* A step of the thread that runs AutoTunerWorker.run
TunerStep ==
    \/ TunerStart
    \/ TunerWarmupReturn
    \/ TunerSurvey
    \/ TunerSurveyReturn
    \/ TunerSemiSize
    \/ TunerSemiRep
    \/ TunerSemiReturn
    \/ TunerFinalSize
    \/ TunerFinalRep
    \/ TunerFinalReturn

TunerNext == TunerStep \/ TunerRaise \/ TunerCancel

TunerSpec == TunerInit /\ [][TunerNext]_vars

\* The thread keeps running and every client call returns or fails.
TunerLiveSpec == TunerInit /\ [][TunerNext]_vars /\ WF_vars(TunerStep)

\* ==================================================================== claims
SplitLen == Len(splitIn.items)

\* C1: for n >= 2 the chunks of _split_chunks concatenate, in order, to the
\* input list, every item lies in exactly one chunk, the first (L mod n) chunks
\* have floor(L/n)+1 items and the others floor(L/n), so sizes differ by at
\* most 1; for n <= 1 the result is the one chunk holding all items.
C1_SplitContiguousBalanced ==
    splitOut.done =>
        LET items == splitIn.items
            n == splitIn.n
            out == splitOut.chunks
        IN  IF n <= 1 THEN out = <<items>>
            ELSE /\ Concat(out) = items
                 /\ \A x \in Range(items) :
                        Cardinality({i \in DOMAIN out : x \in Range(out[i])}) = 1
                 /\ \A i \in DOMAIN out :
                        Len(out[i]) = (SplitLen \div n) + (IF i <= SplitLen % n THEN 1 ELSE 0)
                 /\ \A i, j \in DOMAIN out : Len(out[i]) - Len(out[j]) <= 1

\* A split with a remainder: 2 <= n < L and n does not divide L.
C1_Witness ==
    /\ splitOut.done
    /\ splitIn.n >= 2
    /\ SplitLen > splitIn.n
    /\ SplitLen % splitIn.n # 0

\* C2 as stated: for n >= 1 the number of chunks is min(n, L).
C2_CountIsMin ==
    (splitOut.done /\ splitIn.n >= 1) => Len(splitOut.chunks) = Min(splitIn.n, SplitLen)

\* C2 amended: for n >= 1 the number of chunks is n (which is min(n, L) when
\* n <= L); the chunks beyond the L-th are empty.
C2_CountIsN ==
    (splitOut.done /\ splitIn.n >= 1) =>
        /\ Len(splitOut.chunks) = splitIn.n
        /\ \A i \in DOMAIN splitOut.chunks : i > SplitLen => splitOut.chunks[i] = <<>>

\* More chunks asked for than there are items.
C2_Witness ==
    /\ splitOut.done
    /\ splitIn.n >= 2
    /\ splitIn.n > SplitLen
    /\ Len(splitOut.chunks) = splitIn.n

\* ---------------------------------------------------------- engine claims
\* Some thread of the engine is running: a run is active.
Active == threads # <<>>

\* A translate_batch or polish_batch invocation.
BatchStep == TranslateBatch \/ PolishBatch

Chunks(ws) == [i \in DOMAIN ws |-> ws[i].entries]

UntranslatedIds == SelectSeq(AllIds, LAMBDA id : entries[id].status = "untranslated")

PolishableIds ==
    SelectSeq(AllIds, LAMBDA id :
        /\ entries[id].status \in {"translated", "reviewed"}
        /\ entries[id].translation # <<>>
        /\ Strip(entries[id].translation) # <<>>)

\* C3: in an accepted run finished is emitted exactly once: not while a
\* thread is running, at the step where the worker-done count equals the
\* number of workers started, with every worker out of run() and no thread
\* left running; afterwards only a new batch call emits finished again.
C3_FinishedOnceWhenAllDone ==
    /\ [](Active => finishedEmitted = 0)
    /\ [][Active /\ finishedEmitted' # finishedEmitted =>
            /\ finishedEmitted' = 1
            /\ finishedWorkers' = Len(workers)
            /\ Len(workers) = Min(NumWorkers, Len(runEligible))
            /\ \A i \in DOMAIN workers : workers[i].pc = "exited"
            /\ ~Active']_vars
    /\ [][~Active /\ finishedEmitted' # finishedEmitted => BatchStep]_vars

\* A run of two workers has ended and finished was emitted once.
C3_Witness ==
    /\ lastCall = "accepted"
    /\ ~Active
    /\ finishedWorkers = NumWorkers
    /\ finishedEmitted = 1

BeginsItem(i) ==
    /\ i \in DOMAIN workers
    /\ i \in DOMAIN workers'
    /\ workers[i].pc = "check"
    /\ workers'[i].pc = "body"

\* C5 as stated: from the invocation of cancel() on, no worker takes up a new
\* item of its chunk.
C5_NoNewItemOnceInvoked ==
    [][cancelInvoked => \A i \in 1..NumWorkers : ~BeginsItem(i)]_vars

\* C5 amended: a worker whose flag cancel() has set takes up no new item, and
\* once cancel() has returned no worker does.
C5_NoNewItemOnceFlagged ==
    [][\A i \in 1..NumWorkers :
          (i \in DOMAIN workers /\ (workers[i].cancelled
                                    \/ (cancelInvoked /\ mainPc # "cancel")))
          => ~BeginsItem(i)]_vars

\* cancel() has returned and a worker has left its loop with an item untaken.
C5_Witness ==
    /\ cancelInvoked
    /\ mainPc # "cancel"
    /\ \E i \in DOMAIN workers :
          /\ workers[i].pc \in {"returning", "exited"}
          /\ workers[i].idx <= Len(workers[i].entries)

\* C7: a batch call made while a run is active changes nothing of the engine:
\* threads, workers and their chunks, total and the three counters, the
\* entries and the pending events; and the chunks of the workers of a run
\* never share an entry.
C7_RejectedCallIsNoOp ==
    /\ [][BatchStep /\ Active =>
            UNCHANGED <<threads, workers, total, progressCount, translateCount,
                        finishedWorkers, entries, mainQueue>>]_vars
    /\ [](\A i, j \in DOMAIN workers :
            i # j => Range(workers[i].entries) \cap Range(workers[j].entries) = {})

\* A call was rejected while the two workers of a run were alive.
C7_Witness ==
    /\ lastCall = "rejected"
    /\ Active
    /\ Len(workers) = NumWorkers

\* C8 as stated: a batch call made while a run is active emits finished.
C8_RejectedCallSignals ==
    [][BatchStep /\ Active => finishedEmitted' = finishedEmitted + 1]_vars

\* C8 amended: a batch call made while a run is active returns at once and
\* emits no signal at all, finished included.
C8_RejectedCallSilent ==
    /\ [][BatchStep /\ Active =>
            /\ UNCHANGED <<finishedEmitted, lastProgress, errorCount, checkpointCount>>
            /\ mainPc' = "idle"]_vars
    /\ [](lastCall = "rejected" /\ Active => finishedEmitted = 0)

\* A call was rejected in the middle of a run that had reported progress.
C8_Witness ==
    /\ lastCall = "rejected"
    /\ Active
    /\ progressCount >= 1
    /\ finishedEmitted = 0

\* C9: a batch call on an idle engine with no eligible entry emits finished
\* once and does nothing else: no worker or thread, no event posted or relayed,
\* no entry or counter changed, and the engine stays idle.
C9_EmptyCallOnlyFinishes ==
    /\ [][/\ ~Active
          /\ \/ TranslateBatch /\ UntranslatedIds = <<>>
             \/ PolishBatch /\ PolishableIds = <<>>
          => /\ finishedEmitted' = 1
             /\ threads' = <<>>
             /\ workers' = <<>>
             /\ UNCHANGED <<entries, total, progressCount, translateCount,
                            finishedWorkers, mainQueue, lastProgress, errorCount,
                            checkpointCount, touched>>]_vars
    /\ [](lastCall = "empty" => ~Active /\ finishedEmitted = 1)

\* The latest call found nothing to do.
C9_Witness ==
    /\ lastCall = "empty"
    /\ ~Active
    /\ workers = <<>>
    /\ finishedEmitted = 1

\* C10: an accepted run assigns to its workers exactly the eligible entries
\* (translate: status untranslated; polish: translated or reviewed with a
\* non-blank translation), its total is their number, and the run calls the
\* client or writes a status only for those entries.
C10_OnlyEligibleAssigned ==
    /\ [][BatchStep /\ ~Active /\ Active' =>
            /\ \/ TranslateBatch /\ Concat(Chunks(workers')) = UntranslatedIds
               \/ PolishBatch /\ Concat(Chunks(workers')) = PolishableIds
            /\ \A i \in DOMAIN workers' :
                  workers'[i].mode = IF Concat(Chunks(workers')) = UntranslatedIds
                                     THEN "translate" ELSE "polish"
            /\ runEligible' = Concat(Chunks(workers'))
            /\ total' = Len(runEligible')]_vars
    /\ [](Active => Concat(Chunks(workers)) = runEligible /\ total = Len(runEligible))
    /\ [](touched \subseteq Range(runEligible))

\* A run that left an ineligible entry out has ended after doing work.
C10_Witness ==
    /\ lastCall = "accepted"
    /\ ~Active
    /\ runEligible # <<>>
    /\ Len(runEligible) < MaxEntries
    /\ touched # {}

\* C4: every accepted run ends with exactly one finished signal and the
\* engine idle again, whatever the client calls return, and an idle engine
\* never rejects a batch call.
C4_EveryRunFinishes ==
    /\ Active ~> (~Active /\ mainPc = "idle" /\ finishedEmitted = 1)
    /\ [](finishedEmitted <= 1)
    /\ [][BatchStep /\ ~Active => lastCall' \in {"accepted", "empty"}]_vars

\* A run in which every client call failed has finished.
C4_Witness ==
    /\ lastCall = "accepted"
    /\ ~Active
    /\ finishedEmitted = 1
    /\ total >= NumWorkers
    /\ errorCount = total
    /\ translateCount = 0

\* C6: cancel() never waits, when it has returned every worker of the run has
\* its flag set, and a run in which cancel() was invoked still ends with its
\* one finished signal.
C6_CancelThenFinished ==
    /\ [](mainPc = "cancel" => ENABLED CancelStep)
    /\ [](cancelInvoked /\ mainPc # "cancel" /\ Active =>
            \A i \in DOMAIN workers : workers[i].cancelled)
    /\ (cancelInvoked /\ Active) ~> (~Active /\ finishedEmitted = 1)
    /\ [](cancelInvoked => finishedEmitted <= 1)

\* A cancelled run has finished before all its entries were processed.
C6_Witness ==
    /\ cancelInvoked
    /\ lastCall = "accepted"
    /\ ~Active
    /\ finishedEmitted = 1
    /\ progressCount < total

\* Number of entries the filter of the starting call keeps.
EligibleCount(mode) ==
    IF mode = "translate" THEN Len(UntranslatedIds) ELSE Len(PolishableIds)

QueuedItems == Len(SelectSeq(mainQueue, LAMBDA ev : ev.type = "item_processed"))

\* item_processed events the worker has emitted so far.
ItemsEmitted(w) == (w.idx - 1) + (IF w.pc = "call" THEN 1 ELSE 0)

RECURSIVE SumEmitted(_)
SumEmitted(ws) == IF ws = <<>> THEN 0 ELSE ItemsEmitted(Head(ws)) + SumEmitted(Tail(ws))

\* C12: whatever the interleaving of the workers, every item_processed event
\* (skips included) is counted exactly once: the counter plus the events still
\* waiting equals the events emitted, none is waiting when the run ends, each
\* handled event adds one and issues progress(current, total, text) with the
\* new count, and the counter changes in no other way during a run.
C12_ProgressCountsEveryItem ==
    /\ [](Active => progressCount + QueuedItems = SumEmitted(workers))
    /\ [][Active /\ ~Active' => QueuedItems = 0]_vars
    /\ [](lastProgress.current = progressCount)
    /\ [][progressCount' # progressCount \/ lastProgress' # lastProgress =>
            \/ /\ mainQueue # <<>>
               /\ Head(mainQueue).type = "item_processed"
               /\ mainQueue' = Tail(mainQueue)
               /\ progressCount' = progressCount + 1
               /\ lastProgress' = [current |-> progressCount + 1, total |-> total,
                                   text |-> Head(mainQueue).text]
            \/ BatchStep /\ ~Active /\ progressCount' = 0]_vars
    /\ [][(mainQueue # <<>> /\ Head(mainQueue).type = "item_processed"
           /\ mainQueue' = Tail(mainQueue)) => progressCount' = progressCount + 1]_vars

\* Both workers of a run have emitted an item event and each was counted.
C12_Witness ==
    /\ Active
    /\ Len(workers) = NumWorkers
    /\ \A i \in DOMAIN workers : ItemsEmitted(workers[i]) >= 1
    /\ QueuedItems = 0
    /\ progressCount = NumWorkers
    /\ lastProgress.current = NumWorkers

\* C13: at every point of a run the checkpoints emitted number
\* floor(S / CHECKPOINT_INTERVAL), S being the entry completions relayed so far
\* in the run; S grows by one with each entry_done event handled and with
\* nothing else (not with an error or an item event), and a checkpoint is
\* emitted exactly in the steps in which S reaches a multiple of the interval.
C13_CheckpointEveryInterval ==
    /\ [](checkpointCount = translateCount \div CHECKPOINT_INTERVAL)
    /\ [][translateCount' # translateCount =>
            \/ /\ mainQueue # <<>>
               /\ Head(mainQueue).type = "entry_done"
               /\ mainQueue' = Tail(mainQueue)
               /\ translateCount' = translateCount + 1
            \/ BatchStep /\ ~Active /\ translateCount' = 0]_vars
    /\ [][(mainQueue # <<>> /\ mainQueue' = Tail(mainQueue)) =>
            translateCount' = translateCount
                              + (IF Head(mainQueue).type = "entry_done" THEN 1 ELSE 0)]_vars
    /\ [][checkpointCount' # checkpointCount =>
            \/ /\ checkpointCount' = checkpointCount + 1
               /\ translateCount' = translateCount + 1
               /\ translateCount' % CHECKPOINT_INTERVAL = 0
            \/ BatchStep /\ ~Active /\ checkpointCount' = 0]_vars

\* A run in which every entry of the long project succeeded has ended, after
\* at least 3 checkpoints.
C13_Witness ==
    /\ lastCall = "accepted"
    /\ ~Active
    /\ finishedEmitted = 1
    /\ translateCount = MaxLongRun
    /\ errorCount = 0
    /\ checkpointCount = MaxLongRun \div CHECKPOINT_INTERVAL
    /\ checkpointCount >= 3

\* The worker has emitted its finished signal and is leaving or has left run().
Left(w) == w.pc \in {"returning", "exited"}

QueuedFinished == Len(SelectSeq(mainQueue, LAMBDA ev : ev.type = "finished"))

\* C14: every started worker emits finished: it leaves its loop in the end
\* (chunk exhausted, cancelled, or calls failing), the step that leaves the loop
\* emits finished, a finished signal is emitted by no other step, and a worker
\* that has emitted it emits nothing more and never resumes; so the finished
\* signals emitted number the workers that have left.
C14_WorkerFinishedOnceLast ==
    /\ \A i \in 1..NumWorkers :
          (i \in DOMAIN workers /\ ~Left(workers[i]))
              ~> (i \in DOMAIN workers /\ Left(workers[i]))
    /\ [][\A i \in DOMAIN workers \cap DOMAIN workers' :
            (~Left(workers[i]) /\ Left(workers'[i])) =>
                /\ mainQueue' = Append(mainQueue, Event("finished", 0, <<>>))
                /\ workers'[i].pc = "returning"]_vars
    /\ [][(Len(mainQueue') > Len(mainQueue)
           /\ mainQueue'[Len(mainQueue')].type = "finished") =>
            \E i \in DOMAIN workers : ~Left(workers[i]) /\ Left(workers'[i])]_vars
    /\ [][\A i \in DOMAIN workers \cap DOMAIN workers' :
            Left(workers[i]) =>
                /\ Left(workers'[i])
                /\ workers'[i] # workers[i] => mainQueue' = mainQueue]_vars
    /\ [](Active => QueuedFinished + finishedWorkers
                    = Cardinality({i \in DOMAIN workers : Left(workers[i])}))

\* A worker all of whose client calls failed has emitted finished and left.
C14_Witness ==
    /\ workers # <<>>
    /\ workers[1].pc = "exited"
    /\ workers[1].idx > Len(workers[1].entries)
    /\ finishedWorkers = 1
    /\ errorCount = Len(workers[1].entries)

\* The workers that exist before and after a step.
Lasting == DOMAIN workers \cap DOMAIN workers'

\* The item the worker is at.
Current(w) == w.entries[w.idx]

LastPosted == mainQueue'[Len(mainQueue')]

\* C15: when a client call ends, the worker emits one event for the item (for
\* a failure: error with the item's id and the message), writes no entry and
\* moves to the next item of its chunk; handling the error event changes no
\* entry either, so the failed item keeps its status; a worker at the top of
\* its loop with items left and its flag unset takes up the next item, and a
\* worker leaves its loop only with its chunk exhausted or its flag set.
C15_FailureDoesNotAbortChunk ==
    /\ [][\A i \in Lasting :
            (workers[i].pc = "call" /\ workers'[i].pc # "call") =>
                /\ Len(mainQueue') = Len(mainQueue) + 1
                /\ LastPosted.id = Current(workers[i])
                /\ LastPosted.type \in {"entry_done", "error"}
                /\ LastPosted.type = "error" => LastPosted.text = ErrorText
                /\ workers'[i].pc = "check"
                /\ workers'[i].idx = workers[i].idx + 1
                /\ entries' = entries]_vars
    /\ [][(mainQueue # <<>> /\ Head(mainQueue).type = "error"
           /\ mainQueue' = Tail(mainQueue)) =>
            entries' = entries /\ errorCount' = errorCount + 1]_vars
    /\ [][\A i \in Lasting :
            (/\ workers[i].pc = "check"
             /\ workers'[i].pc # "check"
             /\ workers[i].idx <= Len(workers[i].entries)
             /\ ~workers[i].cancelled) =>
                workers'[i].pc = "body" /\ workers'[i].idx = workers[i].idx]_vars
    /\ [](\A i \in DOMAIN workers :
            Left(workers[i]) =>
                workers[i].idx > Len(workers[i].entries) \/ workers[i].cancelled)

\* The call for the first item of a chunk failed, the item is still
\* untranslated, and the second item was translated after it.
C15_Witness ==
    /\ ~cancelInvoked
    /\ errorCount = 1
    /\ translateCount = 1
    /\ entries[1].status = "untranslated"
    /\ Truthy(Strip(entries[1].original))
    /\ entries[2].status = "translated"

\* The item is one the worker skips: in translate mode its status is
\* translated, reviewed or skipped or its source text is blank; in polish mode
\* its translation is blank.
SkipCase(w, e) ==
    IF w.mode = "translate"
    THEN e.status \in {"translated", "reviewed", "skipped"} \/ Strip(e.original) = <<>>
    ELSE Strip(e.translation) = <<>>

\* Some worker thread has moved on in its run().
ThreadStep == \E i \in Lasting : workers'[i].pc # workers[i].pc

\* C16: for an item it skips the worker emits exactly one item_processed event
\* with a skip text and goes to the next item, without a client call and so
\* without an entry_done event; a worker is never in a client call for such an
\* item, entry_done is emitted only at the end of a client call, and the only
\* write a worker thread makes to an entry sets the status skipped on a
\* translate-mode item that was untranslated with a blank source text.
C16_SkipsMakeNoCall ==
    /\ [][\A i \in Lasting :
            (/\ workers[i].pc = "body"
             /\ workers'[i].pc # "body"
             /\ SkipCase(workers[i], entries[Current(workers[i])])) =>
                /\ workers'[i].pc = "check"
                /\ workers'[i].idx = workers[i].idx + 1
                /\ Len(mainQueue') = Len(mainQueue) + 1
                /\ LastPosted.type = "item_processed"
                /\ LastPosted.id = Current(workers[i])
                /\ LastPosted.text \in {SkippedText, EmptyText}]_vars
    /\ [](\A i \in DOMAIN workers :
            workers[i].pc = "call" => ~SkipCase(workers[i], entries[Current(workers[i])]))
    /\ [][(Len(mainQueue') > Len(mainQueue) /\ LastPosted.type = "entry_done") =>
            \E i \in Lasting : workers[i].pc = "call" /\ workers'[i].pc = "check"]_vars
    /\ [][(ThreadStep /\ entries' # entries) =>
            \E i \in Lasting :
                LET id == Current(workers[i])
                IN  /\ workers[i].pc = "body"
                    /\ workers[i].mode = "translate"
                    /\ entries[id].status = "untranslated"
                    /\ Strip(entries[id].original) = <<>>
                    /\ entries' = [entries EXCEPT ![id].status = "skipped"]]_vars

\* A translate-mode worker has skipped a reviewed item and then a blank
\* untranslated one, which it marked skipped; no call was made.
C16_Witness ==
    /\ workers # <<>>
    /\ workers[1].mode = "translate"
    /\ workers[1].idx = 3
    /\ entries[1].status = "reviewed"
    /\ entries[2].status = "skipped"
    /\ touched = {2}
    /\ progressCount = 2
    /\ translateCount = 0
    /\ errorCount = 0

\* The items of its chunk the worker has not begun.
NotBegun(w) ==
    {w.entries[k] : k \in {j \in DOMAIN w.entries :
                              j > w.idx \/ (j = w.idx /\ w.pc # "body" /\ w.pc # "call")}}

\* C17: an item is begun only from the flag test, with the flag unset; a worker
\* that finds its flag set at the test emits finished and leaves without
\* moving on in its chunk or writing an entry, and stays where it stopped; and
\* the items a worker has not begun are untouched: no event carries their id,
\* no client call or write was made for them, and no step changes them.
C17_CancelledWorkerLeavesRestUntouched ==
    /\ [][\A i \in Lasting :
            (workers'[i].pc = "body" /\ workers[i].pc # "body") =>
                workers[i].pc = "check" /\ ~workers[i].cancelled]_vars
    /\ [][\A i \in Lasting :
            (workers[i].pc = "check" /\ workers'[i].pc # "check" /\ workers[i].cancelled) =>
                /\ workers'[i].pc = "returning"
                /\ workers'[i].idx = workers[i].idx
                /\ mainQueue' = Append(mainQueue, Event("finished", 0, <<>>))
                /\ entries' = entries]_vars
    /\ [][\A i \in Lasting :
            Left(workers[i]) =>
                /\ workers'[i].idx = workers[i].idx
                /\ workers'[i].entries = workers[i].entries]_vars
    /\ [](\A i \in DOMAIN workers :
            /\ touched \cap NotBegun(workers[i]) = {}
            /\ \A k \in DOMAIN mainQueue : mainQueue[k].id \notin NotBegun(workers[i]))
    /\ [][\A i \in Lasting :
            \A id \in NotBegun(workers[i]) : entries'[id] = entries[id]]_vars

\* A cancelled worker has left after its first item, the second not begun.
C17_Witness ==
    /\ workers # <<>>
    /\ workers[1].cancelled
    /\ workers[1].pc = "exited"
    /\ workers[1].idx = 2
    /\ translateCount = 1
    /\ entries[1].status = "translated"
    /\ entries[2].status = "untranslated"
    /\ touched = {1}

\* C18: every entry whose status is translated or reviewed has a non-empty
\* translation, whatever text the client returned.
C18_TranslatedHasText ==
    \A id \in DOMAIN entries :
        entries[id].status \in {"translated", "reviewed"} => entries[id].translation # <<>>

\* The event reports the end of a client call.
IsOutcome(ev) == ev.type \in {"entry_done", "error"}

\* Position of an entry in the worker's chunk.
Pos(w, id) == CHOOSE k \in DOMAIN w.entries : w.entries[k] = id

\* C19: for an item it does not skip the worker starts one client call, polish
\* on the translation in polish mode and translate on the source text
\* otherwise; the call ends with one entry_done or error event carrying the
\* item's id (entry_done: the client's result) and the worker moves to the next
\* item, never back, so each item gets at most one call and calls follow the
\* chunk's order; the events are delivered first in, first out, so the outcome
\* events of a worker wait in chunk order and are handled in that order, and
\* the entry_done handler hands on the id and the text it received.
C19_OneCallPerItemInChunkOrder ==
    /\ [][\A i \in Lasting :
            LET w == workers[i]
                e == entries[Current(w)]
            IN  (w.pc = "body" /\ workers'[i].pc # "body" /\ ~SkipCase(w, e)) =>
                    /\ workers'[i].pc = "call"
                    /\ workers'[i].idx = w.idx
                    /\ workers'[i].req =
                          IF w.mode = "polish"
                          THEN [fn |-> "polish", text |-> e.translation]
                          ELSE [fn |-> "translate", text |-> e.original]]_vars
    /\ [](\A i \in DOMAIN workers :
            workers[i].pc = "call" <=> workers[i].req.fn # "none")
    /\ [][\A i \in Lasting :
            (workers[i].pc = "call" /\ workers'[i].pc # "call") =>
                /\ workers'[i].pc = "check"
                /\ workers'[i].idx = workers[i].idx + 1
                /\ Len(mainQueue') = Len(mainQueue) + 1
                /\ IsOutcome(LastPosted)
                /\ LastPosted.id = Current(workers[i])
                /\ LastPosted.type = "entry_done" => LastPosted.text \in ResultTexts]_vars
    /\ [][\A i \in Lasting :
            /\ workers'[i].idx \in {workers[i].idx, workers[i].idx + 1}
            /\ (workers'[i].pc = "call" /\ workers[i].pc # "call") =>
                  workers[i].pc = "body"]_vars
    /\ [](\A i \in DOMAIN workers : \A a, b \in DOMAIN mainQueue :
            (/\ a < b
             /\ IsOutcome(mainQueue[a])
             /\ IsOutcome(mainQueue[b])
             /\ {mainQueue[a].id, mainQueue[b].id} \subseteq Range(workers[i].entries)) =>
                /\ Pos(workers[i], mainQueue[a].id) < Pos(workers[i], mainQueue[b].id)
                /\ Pos(workers[i], mainQueue[b].id) < workers[i].idx)
    /\ [][mainQueue' # mainQueue =>
            \/ mainQueue # <<>> /\ mainQueue' = Tail(mainQueue)
            \/ /\ Len(mainQueue') = Len(mainQueue) + 1
               /\ SubSeq(mainQueue', 1, Len(mainQueue)) = mainQueue]_vars
    /\ [][(mainQueue # <<>> /\ Head(mainQueue).type = "entry_done"
           /\ mainQueue' = Tail(mainQueue)) =>
            /\ entries'[Head(mainQueue).id].translation = Head(mainQueue).text
            /\ \A id \in DOMAIN entries :
                  id # Head(mainQueue).id => entries'[id] = entries[id]]_vars

\* The two items of a chunk were called for in turn, and the entry_done of the
\* first waits ahead of the error of the second.
C19_Witness ==
    /\ workers # <<>>
    /\ workers[1].idx = 3
    /\ \E a, b \in DOMAIN mainQueue :
          /\ a < b
          /\ mainQueue[a].type = "entry_done"
          /\ mainQueue[a].id = workers[1].entries[1]
          /\ mainQueue[b].type = "error"
          /\ mainQueue[b].id = workers[1].entries[2]

\* The finished signals a calibration has emitted so far.
FinishedEmitted == {k \in DOMAIN tuner.out : tuner.out[k].sig = "finished"}

\* run() has returned.
Returned20 == tuner.pc = "done"

\* C20: every call of AutoTunerWorker.run() emits finished exactly once and as
\* its last signal, whichever way the run goes (cloud bypass, too few entries,
\* a failed warmup, failed batches, an exception escaping _run_impl,
\* cancellation at any point): while the run is under way no finished signal
\* has been emitted, once it has returned there is exactly one and it is the
\* last signal, nothing is emitted afterwards, and, the thread being scheduled
\* and every client call returning or failing, the run does return.
C20_FinishedExactlyOnceAndLast ==
    /\ [](~Returned20 => FinishedEmitted = {})
    /\ [](Returned20 => FinishedEmitted = {Len(tuner.out)})
    /\ [][Returned20 => tuner'.out = tuner.out /\ tuner'.pc = "done"]_vars
    /\ <>Returned20

\* An exception escaped _run_impl after a measured batch of a cancelled run:
\* the error was reported and finished(5) came last.
C20_Witness ==
    /\ Returned20
    /\ tuner.cancelled
    /\ \E k \in DOMAIN tuner.out : tuner.out[k].sig = "step_done"
    /\ Len(tuner.out) >= 2
    /\ tuner.out[Len(tuner.out) - 1] = [sig |-> "error", val |-> 0]
    /\ tuner.out[Len(tuner.out)] = [sig |-> "finished", val |-> SURVEY_STEPS[1]]

\* A calibration is under way or over.
Calibrating == tuner.pc # "none"

\* C21: during a calibration the entries consumed never exceed the eligible
\* entries, every batch asked of the client is a full slice of the eligible
\* entries lying at the offset (so no larger than what remains beyond it), and
\* the successes counted for a batch never exceed the size of the batch, even
\* when the client returns keys the batch does not have.
C21_WithinEntryBudget ==
    /\ [](Calibrating =>
            /\ tuner.consumed <= tuner.eligible
            /\ tuner.consumed <= tuner.offset
            /\ \A k \in DOMAIN tuner.batches :
                  /\ tuner.batches[k].size >= 1
                  /\ tuner.batches[k].offset + tuner.batches[k].size <= tuner.eligible)
    /\ [][Calibrating => tuner'.consumed - tuner.consumed <= tuner.size]_vars

\* A full survey batch came back with an unknown key besides its own: all its
\* entries were counted and no more.
C21_Witness ==
    /\ tuner.pc = "r1"
    /\ tuner.size = SURVEY_STEPS[1]
    /\ tuner.last = Returned(tuner.size, 0, 1, tuner.last.elapsed)
    /\ tuner.consumed = WARMUP_SIZE + tuner.size
    /\ tuner.consumed = tuner.offset

\* The entry_done signals among the first k signals of the calibration.
RECURSIVE EntryDoneEmitted(_)
EntryDoneEmitted(k) ==
    IF k = 0 THEN 0
    ELSE EntryDoneEmitted(k - 1)
           + (IF tuner.out[k].sig = "entry_done" THEN tuner.out[k].val ELSE 0)

\* The worker is inside a client call.
InCall == Calibrating /\ tuner.pc \in {"warmup_call", "r1_call", "r2_call", "r3_call"}

\* C22: after every batch, the warmup included, and at the end of the run, the
\* entry_done signals emitted are as many as consumed_count; a batch adds to
\* both exactly the number of its entries for which the client returned a
\* non-empty translation, and nothing else adds to either.
C22_EntryDoneEqualsConsumed ==
    /\ [](Calibrating => EntryDoneEmitted(Len(tuner.out)) = tuner.consumed)
    /\ [][InCall /\ tuner'.pc # tuner.pc =>
             tuner'.consumed = tuner.consumed + tuner'.last.good]_vars
    /\ [][Calibrating /\ ~InCall => tuner'.consumed = tuner.consumed]_vars

\* A run has ended in which the last batch came back with one empty
\* translation: all but that one were surfaced.
C22_Witness ==
    /\ tuner.pc = "done"
    /\ ~tuner.last.raised
    /\ tuner.last.empty = 1
    /\ tuner.last.good = tuner.size - 1
    /\ tuner.consumed = tuner.offset - 1
    /\ tuner.consumed > WARMUP_SIZE
    /\ EntryDoneEmitted(Len(tuner.out)) = tuner.consumed

\* The signals of the given kinds emitted so far.
Emitted(sigs) == {k \in DOMAIN tuner.out : tuner.out[k].sig \in sigs}

\* run() had to catch an exception that escaped _run_impl.
ExceptionEscaped == \E k \in DOMAIN tuner.out : tuner.out[k] = [sig |-> "error", val |-> 0]

\* The size the calibration reported.
Reported == tuner.out[Len(tuner.out)].val

\* C23: with a cloud client (is_cloud) the calibration makes no translate_batch
\* call, consumes no entry, emits no entry_done and no step_done signal, and,
\* unless an exception escaped _run_impl, reports batch size 30, however many
\* entries are eligible and whether or not it was cancelled.
C23_CloudBypass ==
    (Calibrating /\ tuner.cloud) =>
        /\ tuner.batches = <<>>
        /\ ~InCall
        /\ tuner.consumed = 0
        /\ Emitted({"entry_done", "step_done", "progress"}) = {}
        /\ (Returned20 /\ ~ExceptionEscaped => tuner.out = <<[sig |-> "finished", val |-> 30]>>)

\* A cancelled calibration with a cloud client and 557 eligible entries has
\* reported 30.
C23_Witness ==
    /\ tuner.cloud
    /\ tuner.eligible = 557
    /\ tuner.cancelled
    /\ Returned20
    /\ Reported = 30
    /\ tuner.consumed = 0

\* A calibration with a local client.
Local == Calibrating /\ ~tuner.cloud

\* C24: with a local client and fewer than 107 eligible entries the
\* calibration makes no client call, consumes nothing and, unless an exception
\* escaped _run_impl, reports batch size 1; with 107 or more, a run that was
\* not cancelled and met no escaping exception has gone into the warmup as
\* soon as it is past its start.
C24_MinimumEntriesInclusive ==
    /\ (Local /\ tuner.eligible < 107) =>
          /\ tuner.batches = <<>>
          /\ ~InCall
          /\ tuner.consumed = 0
          /\ Emitted({"entry_done", "step_done", "progress"}) = {}
          /\ (Returned20 /\ ~ExceptionEscaped => tuner.out = <<[sig |-> "finished", val |-> 1]>>)
    /\ (Local /\ tuner.eligible >= 107 /\ tuner.pc # "start"
              /\ ~tuner.cancelled /\ ~ExceptionEscaped) =>
          /\ tuner.batches # <<>>
          /\ tuner.batches[1] = [round |-> "warmup", offset |-> 0, size |-> 2]

\* A calibration over 106 eligible entries has reported 1.
C24_Witness ==
    /\ Local
    /\ tuner.eligible = 106
    /\ Returned20
    /\ Reported = 1
    /\ tuner.batches = <<>>

\* The warmup call raised and the calibration gave up.
WarmupFailed == Returned20 /\ Len(tuner.batches) = 1 /\ tuner.last.raised

\* The survey is behind the worker.
PastSurvey == tuner.pc \notin {"start", "warmup_call", "r1", "r1_call"}

\* C25: with exactly 107 eligible entries, no cancellation and no escaping
\* exception, the first batch is the warmup over the first 2 entries, it is
\* over before any survey sample is recorded (and has counted both entries when
\* the client translated them), and the survey then takes the sizes 5, 10, 15,
\* 20, 25, 30 in this order, one batch of exactly that size each, back to back
\* from offset 2; unless the warmup call raised, all six are attempted.
C25_ExactFitSurvey ==
    (Local /\ tuner.eligible = 107 /\ ~tuner.cancelled /\ ~ExceptionEscaped) =>
        /\ tuner.pc # "start" =>
              tuner.batches[1] = [round |-> "warmup", offset |-> 0, size |-> 2]
        /\ (tuner.pc = "r1" /\ Len(tuner.batches) = 1 /\ tuner.faults = 0) =>
              tuner.consumed = 2 /\ tuner.r1 = <<>>
        /\ \A k \in 2..Len(tuner.batches) :
              /\ k <= 7
              /\ tuner.batches[k] = [round |-> "survey",
                                     offset |-> <<2, 7, 17, 32, 52, 77>>[k - 1],
                                     size |-> <<5, 10, 15, 20, 25, 30>>[k - 1]]
        /\ Len(tuner.r1) = Len(tuner.batches) - (IF tuner.pc = "r1_call" THEN 2 ELSE 1)
              \/ tuner.pc \in {"start", "warmup_call"} \/ WarmupFailed
        /\ (PastSurvey /\ ~WarmupFailed) =>
              /\ Len(tuner.batches) = 7
              /\ Sizes(tuner.r1) = <<5, 10, 15, 20, 25, 30>>
              /\ tuner.offset = 107

\* The calibration over 107 entries has ended after a warmup and six survey
\* batches, the last of which took the entries 77..106.
C25_Witness ==
    /\ Local
    /\ tuner.eligible = 107
    /\ ~tuner.cancelled
    /\ ~ExceptionEscaped
    /\ Returned20
    /\ Len(tuner.batches) = 7
    /\ tuner.batches[7] = [round |-> "survey", offset |-> 77, size |-> 30]
    /\ tuner.consumed = 107

\* The calibration went through the selection of the winner (lines 215-235).
WinnerSelected == Returned20 /\ tuner.top2 # <<>> /\ ~ExceptionEscaped

\* C26: when the selection of the winner finds two finalists whose combined
\* average throughputs are equal, the calibration reports the larger of the
\* two sizes.
C26_TieGoesToLargerSize ==
    (/\ WinnerSelected
     /\ Len(Combined(tuner)) = 2
     /\ RatEq(Combined(tuner)[1].eps, Combined(tuner)[2].eps)) =>
        /\ Reported >= Combined(tuner)[1].size
        /\ Reported >= Combined(tuner)[2].size
        /\ Reported \in {Combined(tuner)[1].size, Combined(tuner)[2].size}

\* Two finalists ended with the same positive combined average, the smaller
\* size ranked first after the semifinals, and the larger one was reported.
C26_Witness ==
    /\ WinnerSelected
    /\ Len(Combined(tuner)) = 2
    /\ RatEq(Combined(tuner)[1].eps, Combined(tuner)[2].eps)
    /\ RatLess(Zero, Combined(tuner)[1].eps)
    /\ Combined(tuner)[1].size < Combined(tuner)[2].size
    /\ Reported = Combined(tuner)[2].size
    /\ Len(SamplesOf(tuner.r3, Reported)) = REPS

\* All the samples rounds 2 and 3 took of a size, failed batches included.
FinalistSamples(size) == SamplesOf(tuner.r2, size) \o SamplesOf(tuner.r3, size)

\* C27: a calibration that reaches the selection of the winner reports one of
\* the (at most two) finalists, every finalist has samples, and no finalist
\* has a higher average over all its samples of rounds 2 and 3 together than
\* the reported one; the survey's samples do not enter these averages and the
\* zero samples of failed batches do.
C27_WinnerHasBestCombinedAverage ==
    WinnerSelected =>
        /\ Len(tuner.top2) \in 1..2
        /\ Reported \in Range(tuner.top2)
        /\ \A s \in Range(tuner.top2) :
              /\ FinalistSamples(s) # <<>>
              /\ ~RatLess(Average(FinalistSamples(Reported)), Average(FinalistSamples(s)))

\* The winner won on six samples one of which is the zero of a failed batch,
\* ahead of a finalist with six samples and a lower average.
C27_Witness ==
    /\ WinnerSelected
    /\ Len(tuner.top2) = 2
    /\ \A s \in Range(tuner.top2) : Len(FinalistSamples(s)) = 2 * REPS
    /\ Zero \in Range(FinalistSamples(Reported))
    /\ \E s \in Range(tuner.top2) :
          RatLess(Average(FinalistSamples(s)), Average(FinalistSamples(Reported)))

\* The latest sample of the round the worker is in.
LatestSample(t) ==
    IF t.pc = "r1" THEN t.r1[Len(t.r1)]
    ELSE IF t.pc = "r2_rep"
    THEN [size |-> t.r2[Len(t.r2)].size,
          eps |-> t.r2[Len(t.r2)].samples[Len(t.r2[Len(t.r2)].samples)]]
    ELSE [size |-> t.r3[Len(t.r3)].size,
          eps |-> t.r3[Len(t.r3)].samples[Len(t.r3[Len(t.r3)].samples)]]

\* The client call of a timed batch (survey, semifinal or final) ends with an
\* exception.
TimedCallFails ==
    /\ Calibrating
    /\ tuner.pc \in {"r1_call", "r2_call", "r3_call"}
    /\ tuner'.pc # tuner.pc
    /\ tuner'.last.raised

\* The samples of a size are all zero.
AllZero(size) == \A k \in DOMAIN FinalistSamples(size) : FinalistSamples(size)[k] = Zero

\* C28: when the client call of a survey, semifinal or final batch raises, the
\* worker emits an error signal for the batch, records a zero-throughput
\* sample for its size, emits step_done, counts nothing as consumed and is
\* back at the head of the loop it was in, from where the next batch is taken;
\* and a finalist whose samples are all zero is not reported as the winner when
\* another finalist has a positive combined average.
C28_BatchFailureIsZeroSample ==
    /\ [][TimedCallFails =>
            /\ tuner'.out = tuner.out \o <<[sig |-> "error", val |-> tuner.size],
                                           [sig |-> "step_done", val |-> tuner.size]>>
            /\ tuner'.pc = (IF tuner.pc = "r1_call" THEN "r1"
                            ELSE IF tuner.pc = "r2_call" THEN "r2_rep" ELSE "r3_rep")
            /\ LatestSample(tuner') = [size |-> tuner.size, eps |-> Zero]
            /\ Len(tuner'.r1) + Len(tuner'.r2) + Len(tuner'.r3)
                 = Len(tuner.r1) + Len(tuner.r2) + Len(tuner.r3)
                     + (IF tuner.pc = "r1_call" THEN 1 ELSE 0)
            /\ tuner'.consumed = tuner.consumed
            /\ tuner'.offset = tuner.offset]_vars
    /\ [](WinnerSelected /\ AllZero(Reported) =>
            \A s \in Range(tuner.top2) : ~RatLess(Zero, Average(FinalistSamples(s))))

\* The failed call of a final batch has left its error, its zero sample and
\* its step_done behind, and the worker is at the next repetition.
C28_Witness ==
    /\ tuner.pc = "r3_rep"
    /\ tuner.last.raised
    /\ tuner.rep >= 1
    /\ LatestSample(tuner) = [size |-> tuner.size, eps |-> Zero]
    /\ Len(tuner.out) >= 2
    /\ tuner.out[Len(tuner.out) - 1] = [sig |-> "error", val |-> tuner.size]
    /\ tuner.out[Len(tuner.out)] = [sig |-> "step_done", val |-> tuner.size]
    /\ tuner.rep < REPS

\* The client call of the warmup ends with an exception.
WarmupCallFails ==
    /\ Calibrating
    /\ tuner.pc = "warmup_call"
    /\ tuner'.pc # tuner.pc
    /\ tuner'.last.raised

\* C29: when the client call of the warmup raises, the calibration stops there:
\* it emits finished(5), the smallest survey size, and returns, having cut no
\* survey, semifinal or final batch, recorded no sample and consumed nothing.
C29_WarmupFailureAborts ==
    /\ [][WarmupCallFails =>
            /\ tuner'.pc = "done"
            /\ tuner'.out = Append(tuner.out, [sig |-> "finished", val |-> 5])
            /\ tuner'.batches = tuner.batches]_vars
    /\ [](WarmupFailed =>
            /\ tuner.batches = <<[round |-> "warmup", offset |-> 0, size |-> 2]>>
            /\ tuner.r1 = <<>> /\ tuner.r2 = <<>> /\ tuner.r3 = <<>>
            /\ tuner.consumed = 0
            /\ Emitted({"step_done", "entry_done", "error"}) = {}
            /\ Reported = 5)

\* A calibration over 557 entries has ended on the failure of its warmup.
C29_Witness ==
    /\ WarmupFailed
    /\ tuner.eligible = 557
    /\ ~tuner.cancelled
    /\ Reported = 5
    /\ Len(tuner.out) = 2

\* The survey ended without a sample (line 126): the run got past the filter,
\* its warmup did not fail, and it returned with r1_results empty.
EmptySurvey ==
    /\ Local
    /\ Returned20
    /\ tuner.eligible >= MIN_ENTRIES
    /\ tuner.r1 = <<>>
    /\ ~WarmupFailed
    /\ ~ExceptionEscaped

\* The run ended in one of the two fallbacks: an exception caught by run(), or
\* a survey without samples.
FellBack == Returned20 /\ (ExceptionEscaped \/ EmptySurvey)

\* C30 as stated: in the fallbacks the calibration reports the value given for
\* the too-few-entries case, 1.
C30_FallbackReportsOne == FellBack => Reported = 1

\* C30, amended: when an exception escapes _run_impl, and when the survey
\* ends without a sample, the calibration reports the smallest survey size,
\* which is 5 and not the 1 of the too-few-entries case.
C30_FallbackReportsSmallestSurveySize == FellBack => Reported = 5

\* A calibration cancelled during its warmup took no survey sample and
\* reported 5.
C30_Witness ==
    /\ EmptySurvey
    /\ tuner.cancelled
    /\ Len(tuner.batches) = 1
    /\ tuner.consumed = 2
    /\ Reported = 5

\* The samples the rounds of a calibration hold.
RECURSIVE RepSamples(_)
RepSamples(raw) ==
    IF raw = <<>> THEN 0 ELSE Len(Head(raw).samples) + RepSamples(Tail(raw))

SamplesHeld(t) == Len(t.r1) + RepSamples(t.r2) + RepSamples(t.r3)

\* C31: once cancel() has set the flag, the worker enters no further
\* translate_batch call, in the warmup or in any round; a call it is in when
\* the flag is set still returns, its translations are emitted and counted and
\* its sample recorded; no sample is added after that, and the run goes on to
\* its finished signal.
C31_CancelStopsFurtherBatches ==
    /\ [][(Calibrating /\ tuner.cancelled /\ ~InCall) =>
            /\ tuner'.batches = tuner.batches
            /\ ~InCall'
            /\ SamplesHeld(tuner') = SamplesHeld(tuner)
            /\ tuner'.consumed = tuner.consumed]_vars
    /\ [][(InCall /\ tuner.cancelled /\ tuner'.pc # tuner.pc /\ ~tuner'.last.raised) =>
            /\ tuner'.consumed = tuner.consumed + tuner'.last.good
            /\ tuner'.batches = tuner.batches
            /\ tuner.pc # "warmup_call" => SamplesHeld(tuner') = SamplesHeld(tuner) + 1]_vars
    /\ (Calibrating /\ tuner.cancelled) ~> Returned20

\* A calibration cancelled during a semifinal batch has ended: the batch was
\* counted, and although repetitions and entries for its size remained no
\* further batch was cut.
C31_Witness ==
    /\ Returned20
    /\ tuner.cancelled
    /\ ~ExceptionEscaped
    /\ tuner.batches # <<>>
    /\ tuner.batches[Len(tuner.batches)].round = "semis"
    /\ tuner.r2 # <<>>
    /\ Len(tuner.r2[Len(tuner.r2)].samples) \in 1..(REPS - 1)
    /\ tuner.offset + tuner.size <= tuner.eligible
    /\ tuner.consumed = tuner.offset

\* The batches of a round cut for a size.
BatchesOf(round, size) ==
    {j \in DOMAIN tuner.batches :
        tuner.batches[j].round = round /\ tuner.batches[j].size = size}

\* The offset at which the turn of sizes[k] in a round began: the end of the
\* last batch cut before the first one of that turn, or the current offset
\* when the turn cut none.
TurnStart(round, sizes, k) ==
    LET later == {j \in DOMAIN tuner.batches :
                     /\ tuner.batches[j].round = round
                     /\ \E m \in k..Len(sizes) : tuner.batches[j].size = sizes[m]}
            \cup (IF round = "semis"
                  THEN {j \in DOMAIN tuner.batches : tuner.batches[j].round = "finals"}
                  ELSE {})
    IN  IF later = {} THEN tuner.offset
        ELSE tuner.batches[CHOOSE j \in later : \A m \in later : j <= m].offset

\* The batches a turn should cut: REPS of them, or as many as fit.
FullTurn(round, sizes, k) ==
    Min(REPS, (tuner.eligible - TurnStart(round, sizes, k)) \div sizes[k])

\* Round 2, respectively the whole tournament, has run to its end undisturbed.
SemisOver ==
    /\ Local /\ ~tuner.cancelled /\ ~ExceptionEscaped
    /\ tuner.top3 # <<>>
    /\ tuner.pc \in {"r3_size", "r3_rep", "r3_call", "done"}

FinalsOver == WinnerSelected /\ ~tuner.cancelled

SurveyEps(size) == (CHOOSE r \in Range(tuner.r1) : r.size = size).eps

\* The sizes of round 2 that have a sample, and the average of one.
SemiSampled == {s \in Range(tuner.top3) : SamplesOf(tuner.r2, s) # <<>>}

SemiAverage(size) == Average(SamplesOf(tuner.r2, size))

\* The semifinalists, respectively the finalists, have been chosen.
SemisChosen == Calibrating /\ tuner.top3 # <<>>

FinalsChosen == Calibrating /\ tuner.top2 # <<>>

\* C33: the semifinalists are min(3, samples) distinct surveyed sizes and no
\* surveyed size left out has a strictly higher survey throughput than one
\* taken; the finalists are min(2, sizes with a round-2 sample) distinct
\* semifinalists with a round-2 sample, and no such semifinalist left out has
\* a strictly higher round-2 average than one taken.
C33_TopSizesAdvance ==
    /\ SemisChosen =>
          /\ Len(tuner.top3) = Min(3, Len(tuner.r1))
          /\ Cardinality(Range(tuner.top3)) = Len(tuner.top3)
          /\ Range(tuner.top3) \subseteq Range(Sizes(tuner.r1))
          /\ \A in \in Range(tuner.top3) :
                \A out \in Range(Sizes(tuner.r1)) \ Range(tuner.top3) :
                    ~RatLess(SurveyEps(in), SurveyEps(out))
    /\ FinalsChosen =>
          /\ Len(tuner.top2) = Min(2, Cardinality(SemiSampled))
          /\ Cardinality(Range(tuner.top2)) = Len(tuner.top2)
          /\ Range(tuner.top2) \subseteq SemiSampled
          /\ \A in \in Range(tuner.top2) :
                \A out \in SemiSampled \ Range(tuner.top2) :
                    ~RatLess(SemiAverage(in), SemiAverage(out))

\* Three of six surveyed sizes went to the semifinals ahead of a slower one
\* surveyed before them, and two of the three to the finals ahead of a slower
\* one.
C33_Witness ==
    /\ FinalsChosen
    /\ Len(tuner.r1) = 6
    /\ Len(tuner.top3) = 3
    /\ 5 \notin Range(tuner.top3)
    /\ \A in \in Range(tuner.top3) : RatLess(SurveyEps(5), SurveyEps(in))
    /\ Len(tuner.top2) = 2
    /\ \E out \in SemiSampled \ Range(tuner.top2) :
          \A in \in Range(tuner.top2) : RatLess(SemiAverage(out), SemiAverage(in))

\* The run ended after a survey with samples and semifinals without any.
NoSemiSample ==
    /\ Local
    /\ Returned20
    /\ ~ExceptionEscaped
    /\ tuner.r1 # <<>>
    /\ RepSamples(tuner.r2) = 0

\* C34: when the survey recorded samples and no semifinal size produced one
\* (the entries were used up by the survey, or the run was cancelled), the
\* calibration cuts no finals batch, chooses no finalist, and reports a
\* surveyed size whose survey throughput no other surveyed size exceeds.
C34_FallsBackToSurveyWinner ==
    NoSemiSample =>
        /\ \A j \in DOMAIN tuner.batches : tuner.batches[j].round # "finals"
        /\ tuner.top2 = <<>> /\ tuner.r3 = <<>>
        /\ Reported \in Range(Sizes(tuner.r1))
        /\ \A r \in Range(tuner.r1) : ~RatLess(SurveyEps(Reported), r.eps)
        /\ tuner.out[Len(tuner.out) - 1] = [sig |-> "progress", val |-> Reported]

\* With exactly 107 eligible entries the six survey batches left nothing for
\* the semifinals, and the size with the strictly highest survey throughput,
\* not the first one surveyed, was reported.
C34_Witness ==
    /\ NoSemiSample
    /\ tuner.eligible = 107
    /\ ~tuner.cancelled
    /\ Len(tuner.r1) = 6
    /\ Reported # 5
    /\ \A r \in Range(tuner.r1) : r.size # Reported => RatLess(r.eps, SurveyEps(Reported))

\* C35: the size a calibration reports is one of 1, 5, 10, 15, 20, 25, 30;
\* when the survey recorded a sample and no exception escaped, it is a size
\* the survey sampled and one of the semifinalists; and when finalists were
\* chosen it is one of the (at most two) finalists.
C35_ReportedSizeIsACandidate ==
    Returned20 =>
        /\ Reported \in {1, 5, 10, 15, 20, 25, 30}
        /\ (tuner.r1 # <<>> /\ ~ExceptionEscaped) =>
              /\ Reported \in Range(Sizes(tuner.r1))
              /\ Reported \in Range(tuner.top3)
              /\ Len(tuner.top3) <= 3
        /\ (tuner.top2 # <<>> /\ ~ExceptionEscaped) =>
              /\ Reported \in Range(tuner.top2)
              /\ Len(tuner.top2) <= 2

\* After a full tournament the second of the two finalists was reported.
C35_Witness ==
    /\ WinnerSelected
    /\ Len(tuner.r1) = 6
    /\ Len(tuner.top2) = 2
    /\ Reported = tuner.top2[2]
    /\ Reported \in Range(tuner.top3)
    /\ RepSamples(tuner.r3) = 2 * REPS

\* The end of the slice of a batch.
SliceEnd(j) == tuner.batches[j].offset + tuner.batches[j].size

\* A client call returns, with or without an exception.
CallEnds == InCall /\ tuner'.pc # tuner.pc

\* C36: the batches of a calibration (warmup, survey, semifinal, final) are
\* non-empty slices of the eligible list laid end to end from offset 0, so
\* their offsets increase strictly, no two of them share an entry and no entry
\* is sent to the client twice; the offset has moved past the whole batch when
\* the call is made and the return of the call, failed, partial or complete,
\* does not move it, so the entries of a failed batch are not cut again and
\* nothing is counted or emitted for them.
C36_BatchesAreDisjointSlices ==
    /\ [](Calibrating =>
            /\ \A j \in DOMAIN tuner.batches :
                  /\ tuner.batches[j].size >= 1
                  /\ tuner.batches[j].offset = (IF j = 1 THEN 0 ELSE SliceEnd(j - 1))
            /\ \A j, k \in DOMAIN tuner.batches :
                  j < k => SliceEnd(j) <= tuner.batches[k].offset
            /\ tuner.batches # <<>> => tuner.offset = SliceEnd(Len(tuner.batches))
            /\ tuner.batches = <<>> => tuner.offset = 0)
    /\ [][CallEnds =>
            /\ tuner'.offset = tuner.offset
            /\ tuner'.batches = tuner.batches
            /\ tuner'.last.raised =>
                  /\ tuner'.consumed = tuner.consumed
                  /\ Emitted({"entry_done"})' = Emitted({"entry_done"})]_vars

\* After a batch whose call failed, the next batch begins where the failed
\* one ended, and the entries of the failed one are the only ones not counted.
C36_Witness ==
    /\ InCall
    /\ tuner.last.raised
    /\ Len(tuner.batches) >= 3
    /\ tuner.batches[Len(tuner.batches)].offset = SliceEnd(Len(tuner.batches) - 1)
    /\ tuner.consumed = tuner.batches[Len(tuner.batches) - 1].offset
    /\ tuner.batches[Len(tuner.batches)].round = "finals"

\* The entries of the run that a worker passed over with a skip.
SkippedInRun == {i \in Range(runEligible) : entries[i].status = "skipped"}

\* An accepted run that was never cancelled has emitted finished.
FinishedUncancelled == lastCall = "accepted" /\ finishedEmitted >= 1 /\ ~cancelInvoked

\* C37: the progress counter always lies between 0 and the total, in the
\* engine and in the progress signals it emits; and when a run that was never
\* cancelled has emitted finished, the counter equals the total and the
\* successes, the errors and the skips of the run add up to the total.
C37_ProgressWithinTotal ==
    /\ 0 <= progressCount /\ progressCount <= total
    /\ 0 <= lastProgress.current /\ lastProgress.current <= lastProgress.total
    /\ FinishedUncancelled =>
          /\ progressCount = total
          /\ lastProgress.current = total /\ lastProgress.total = total
          /\ total = Len(runEligible)
          /\ translateCount + errorCount + Cardinality(SkippedInRun) = total

\* A run over two entries has finished with one skip and one error.
C37_Witness ==
    /\ FinishedUncancelled
    /\ total = 2
    /\ progressCount = 2
    /\ Cardinality(SkippedInRun) = 1
    /\ errorCount = 1
    /\ translateCount = 0

\* Worker i has left its loop and none of its events waits in the queue.
Drained(i) ==
    /\ workers[i].pc \in {"returning", "exited"}
    /\ \A p \in DOMAIN mainQueue : mainQueue[p].id \notin Range(workers[i].entries)

\* What the caller has been handed: progress, errors, checkpoints, results.
Delivered == <<lastProgress, errorCount, checkpointCount, progressCount,
               translateCount, entries>>

\* C38: every worker-done event the engine has counted belongs to a worker all
\* of whose events were relayed before; when the last one is counted and the
\* engine emits finished nothing is left in the queue.
C38_DoneCountedAfterEvents ==
    /\ Active => finishedWorkers <= Cardinality({i \in DOMAIN workers : Drained(i)})
    /\ (mainPc = "joining" \/ ~Active) => mainQueue = <<>>

\* C38: once a run has emitted finished, no progress, entry-done, error or
\* checkpoint event reaches the caller until the next batch call.
C38_NothingAfterFinished ==
    [][(~Active /\ ~BatchStep) => UNCHANGED Delivered]_vars

\* C38: both parts.
C38_NoEventAfterFinished ==
    /\ []C38_DoneCountedAfterEvents
    /\ C38_NothingAfterFinished

\* A run of two workers has emitted finished after one worker's result and the
\* other worker's error were relayed.
C38_Witness ==
    /\ FinishedUncancelled
    /\ ~Active
    /\ total = 2
    /\ translateCount = 1
    /\ errorCount = 1
    /\ mainQueue = <<>>

\* The entries of the current run that hold a translation: in a project that
\* began untranslated, the successes of this run relayed so far.
RunSuccesses == {i \in Range(runEligible) : entries[i].status = "translated"}

\* A batch call is accepted in this step.
RunStarts == BatchStep /\ ~Active /\ Active'

\* C39: in the step that emits a checkpoint the engine is handling the
\* entry_done event of the success that brings the count to a multiple of 25,
\* and what a slot of checkpoint sees is the project with that result in it;
\* the success counter and the checkpoints restart at 0 with every accepted
\* run, and only the successes of the current run count towards a checkpoint.
C39_CheckpointIncludesTrigger ==
    /\ [][checkpointCount' = checkpointCount + 1 =>
            /\ Head(mainQueue).type = "entry_done"
            /\ translateCount' = translateCount + 1
            /\ translateCount' % CHECKPOINT_INTERVAL = 0
            /\ checkpointSeen'.status = "translated"
            /\ checkpointSeen'.translation = Head(mainQueue).text
            /\ checkpointSeen'.translated = TranslatedCount(entries')
            /\ entries'[Head(mainQueue).id].translation = Head(mainQueue).text]_vars
    /\ [][RunStarts => translateCount' = 0 /\ checkpointCount' = 0]_vars
    /\ [](translateCount = Cardinality(RunSuccesses))
    /\ [](checkpointCount * CHECKPOINT_INTERVAL <= Cardinality(RunSuccesses))

\* A second run is under way in a project in which the first run made more
\* than 50 successes and took its second checkpoint with 50 results in view:
\* its counter and its checkpoints are at 0 after an error was relayed.
C39_Witness ==
    /\ lastCall = "accepted"
    /\ Active
    /\ TranslatedCount(entries) > 2 * CHECKPOINT_INTERVAL
    /\ checkpointSeen.translated = 2 * CHECKPOINT_INTERVAL
    /\ checkpointSeen.status = "translated"
    /\ translateCount = 0
    /\ checkpointCount = 0
    /\ errorCount >= 1

\* Position of a size in a list of distinct sizes.
PlaceIn(sizes, size) == CHOOSE i \in DOMAIN sizes : sizes[i] = size

\* Every batch of the survey measured throughput 0.
SurveyAllZero == \A r \in Range(tuner.r1) : RatEq(r.eps, Zero)

\* C40: equal throughputs are ranked in the order they came in. The
\* semifinalists stand in descending survey throughput and, among equals, in
\* survey order (smaller size first); a surveyed size left out that ties with
\* a semifinalist was surveyed after it; so a survey of six zero throughputs
\* sends 5, 10 and 15 to the semifinals. The finalists stand in descending
\* round-2 average and, among equals, in semifinal order; a sampled
\* semifinalist left out that ties with a finalist stood after it.
C40_TiesKeepRankingOrder ==
    /\ SemisChosen =>
          /\ \A a, b \in DOMAIN tuner.top3 :
                a < b =>
                   /\ ~RatLess(SurveyEps(tuner.top3[a]), SurveyEps(tuner.top3[b]))
                   /\ RatEq(SurveyEps(tuner.top3[a]), SurveyEps(tuner.top3[b]))
                         => tuner.top3[a] < tuner.top3[b]
          /\ \A in \in Range(tuner.top3) :
                \A out \in Range(Sizes(tuner.r1)) \ Range(tuner.top3) :
                    RatEq(SurveyEps(in), SurveyEps(out)) => in < out
          /\ (Len(tuner.r1) = Len(SURVEY_STEPS) /\ SurveyAllZero)
                => tuner.top3 = <<5, 10, 15>>
    /\ FinalsChosen =>
          /\ \A a, b \in DOMAIN tuner.top2 :
                a < b =>
                   /\ ~RatLess(SemiAverage(tuner.top2[a]), SemiAverage(tuner.top2[b]))
                   /\ RatEq(SemiAverage(tuner.top2[a]), SemiAverage(tuner.top2[b]))
                         => PlaceIn(tuner.top3, tuner.top2[a])
                               < PlaceIn(tuner.top3, tuner.top2[b])
          /\ \A in \in Range(tuner.top2) :
                \A out \in SemiSampled \ Range(tuner.top2) :
                    RatEq(SemiAverage(in), SemiAverage(out))
                       => PlaceIn(tuner.top3, in) < PlaceIn(tuner.top3, out)

\* All six survey batches measured throughput 0, the semifinalists were 5, 10
\* and 15, all three tied in round 2, the finalists were 5 and 10, and the
\* winner reported is 10, the larger of the tied finalists.
C40_Witness ==
    /\ WinnerSelected
    /\ Len(tuner.r1) = Len(SURVEY_STEPS)
    /\ SurveyAllZero
    /\ tuner.top3 = <<5, 10, 15>>
    /\ SemiSampled = {5, 10, 15}
    /\ RatEq(SemiAverage(5), SemiAverage(15))
    /\ tuner.top2 = <<5, 10>>
    /\ Reported = 10

====
